---- MODULE Spec2Model ----
(***************************************************************************)
(* A model of the extraction, normalization and consolidation core of the  *)
(* GSI Technology equity-research pipeline:                                *)
(*   src/src/scripts/utils/data_cleaner.py     (DataCleaner)               *)
(*   src/src/scripts/extract_annual_reports.py, extract_annual_reports_v2  *)
(*   src/src/analysis/data_consolidation.py    (DataConsolidator)          *)
(*                                                                         *)
(* Text is modelled character by character on TLA+ strings (Len, SubSeq    *)
(* and \o).  Floating-point values are modelled as exact decimals          *)
(* m * 10^(-e) kept in lowest terms (m not divisible by 10 unless e = 0).  *)
(***************************************************************************)
EXTENDS Integers, Sequences, FiniteSets, TLC

VARIABLES
    value,      \* DataCleaner._clean_numeric_value: the raw cell handed in
    cleaned,    \* DataCleaner._clean_numeric_value: what it returned
    name,       \* DataCleaner.normalize_item_names: the raw line-item label
    normalized, \* DataCleaner.normalize_item_names: the label it left in the row
    sheet_df,   \* detect_statement_type_by_content: the sheet (columns, first column)
    stmt_type,  \* detect_statement_type_by_content: what it returned
    workbook,       \* the 10-K workbook under data/raw/annual reports, or None
    income_file,    \* annual_reports/income_statements.csv, or None when the
                    \* file does not exist
    annual_income,  \* DataConsolidator.annual_income: the table read from
                    \* the file, or None
    master_income,  \* what create_master_income_statement returned (and saved)
    raw_df,         \* ExcelParser.detect_table_boundaries: the frame handed in
    boundaries,     \* ExcelParser.detect_table_boundaries: what it returned
    source_df,      \* extract_financial_table(_v2): the frame of the sheet handed in
    extractor,      \* which of the two was called: "v1", "v2", or "none" yet
    extracted,      \* extract_financial_table(_v2): what it returned or raised
    results,        \* extract_annual_report(_v2): what it returned for the workbook
    listing,        \* a script's input: the input root and the files below it
    run,            \* main() of a script: where it is, its counters, its handles
    trimmed,        \* DataCleaner.remove_empty_rows_and_columns: what it returned
    sheet_names,    \* ExcelParser.sheet_names of the workbook being classified
    categories,     \* ExcelParser.find_financial_statement_sheets: what it returned
    header_cols,    \* an extractor at "Clean column names": which one, and df.columns
    named_columns   \* the new_columns list it built

cleanVars == <<value, cleaned>>
nameVars == <<name, normalized>>
detectVars == <<sheet_df, stmt_type>>
consVars == <<income_file, annual_income, master_income>>
boundVars == <<raw_df, boundaries>>
extractVars == <<source_df, extractor, extracted>>
batchVars == <<listing, run>>
classVars == <<sheet_names, categories>>
columnVars == <<header_cols, named_columns>>
notClean == <<nameVars, detectVars, workbook, consVars, boundVars, extractVars, results, batchVars, trimmed, classVars, columnVars>>
notNames == <<cleanVars, detectVars, workbook, consVars, boundVars, extractVars, results, batchVars, trimmed, classVars, columnVars>>
notDetect == <<cleanVars, nameVars, workbook, consVars, boundVars, extractVars, results, batchVars, trimmed, classVars, columnVars>>
notPipeline == <<cleanVars, nameVars, detectVars, boundVars, extractVars, results, batchVars, trimmed, classVars, columnVars>>
notBound == <<cleanVars, nameVars, detectVars, workbook, consVars, extractVars, results, batchVars, trimmed, classVars, columnVars>>
notExtract == <<cleanVars, nameVars, detectVars, workbook, consVars, boundVars, results, batchVars, trimmed, classVars, columnVars>>
notBatch == <<cleanVars, nameVars, detectVars, workbook, consVars, boundVars, extractVars, results, trimmed, classVars, columnVars>>
notTrim == <<cleanVars, nameVars, detectVars, workbook, consVars, boundaries, extractVars, results, batchVars, classVars, columnVars>>
notClass == <<cleanVars, nameVars, detectVars, workbook, consVars, boundVars, extractVars, results, batchVars, trimmed, columnVars>>
notColumns == <<cleanVars, nameVars, detectVars, workbook, consVars, boundVars, extractVars, results, batchVars, trimmed, classVars>>
notReport == <<cleanVars, nameVars, detectVars, consVars, boundVars, source_df, extracted, batchVars, trimmed, classVars, columnVars>>
vars == <<value, cleaned, name, normalized, sheet_df, stmt_type,
          workbook, income_file, annual_income, master_income, raw_df, boundaries,
          source_df, extractor, extracted, results, listing, run, trimmed,
          sheet_names, categories, header_cols, named_columns>>

(***************************************************************************)
(* Bounds of the model.                                                    *)
(***************************************************************************)
MaxCellLen == 3     \* raw text cells: every string up to this length
MaxMantissa == 12   \* numeric cells: mantissas -MaxMantissa..MaxMantissa
MaxDecimals == 5    \* numeric cells: up to this many decimal places
MaxLabelParts == 2  \* line-item labels: up to this many phrases joined
MaxSheetRows == 3   \* classified sheets: up to this many rows
MaxRecords == 2     \* consolidated tables: up to this many records
MaxSheets == 2      \* workbooks: up to this many sheets
MaxGridRows == 3    \* sheets searched for table boundaries: up to this many rows
MaxSourceRows == 3  \* sheets handed to the table extractors: up to this many rows

(***************************************************************************)
(* Python str helpers.                                                     *)
(***************************************************************************)
Char(s, i) == SubSeq(s, i, i)

\* str.startswith / str.endswith
StartsWith(s, p) == Len(s) >= Len(p) /\ SubSeq(s, 1, Len(p)) = p
EndsWith(s, p) == Len(s) >= Len(p) /\ SubSeq(s, Len(s) - Len(p) + 1, Len(s)) = p

\* `sub in s`
Contains(s, sub) ==
    \E i \in 1..(Len(s) - Len(sub) + 1) : SubSeq(s, i, i + Len(sub) - 1) = sub

\* the whitespace the modelled cells can hold (regex \s, str.strip)
Whitespace == {" "}

RECURSIVE LStrip(_)
LStrip(s) ==
    IF Len(s) > 0 /\ Char(s, 1) \in Whitespace THEN LStrip(SubSeq(s, 2, Len(s))) ELSE s

RECURSIVE RStrip(_)
RStrip(s) ==
    IF Len(s) > 0 /\ Char(s, Len(s)) \in Whitespace
    THEN RStrip(SubSeq(s, 1, Len(s) - 1)) ELSE s

\* str.strip()
Strip(s) == RStrip(LStrip(s))

\* re.sub(r'[<chars>]', '', s)
RECURSIVE RemoveChars(_, _)
RemoveChars(s, chars) ==
    IF Len(s) = 0 THEN ""
    ELSE (IF Char(s, 1) \in chars THEN "" ELSE Char(s, 1))
         \o RemoveChars(SubSeq(s, 2, Len(s)), chars)

Digits == {"0", "1", "2", "3", "4", "5", "6", "7", "8", "9"}

DigitVal(c) ==
    CASE c = "0" -> 0 [] c = "1" -> 1 [] c = "2" -> 2 [] c = "3" -> 3
      [] c = "4" -> 4 [] c = "5" -> 5 [] c = "6" -> 6 [] c = "7" -> 7
      [] c = "8" -> 8 [] c = "9" -> 9

DigitChar(d) ==
    CASE d = 0 -> "0" [] d = 1 -> "1" [] d = 2 -> "2" [] d = 3 -> "3"
      [] d = 4 -> "4" [] d = 5 -> "5" [] d = 6 -> "6" [] d = 7 -> "7"
      [] d = 8 -> "8" [] d = 9 -> "9"

AllDigits(s) == \A i \in 1..Len(s) : Char(s, i) \in Digits

RECURSIVE Pow10(_)
Pow10(n) == IF n = 0 THEN 1 ELSE 10 * Pow10(n - 1)

Abs(n) == IF n < 0 THEN -n ELSE n

\* int(<digits>)
RECURSIVE DigitsToInt(_)
DigitsToInt(s) ==
    IF Len(s) = 0 THEN 0
    ELSE 10 * DigitsToInt(SubSeq(s, 1, Len(s) - 1)) + DigitVal(Char(s, Len(s)))

\* str(<non-negative int>)
RECURSIVE IntToDigits(_)
IntToDigits(n) ==
    IF n < 10 THEN DigitChar(n) ELSE IntToDigits(n \div 10) \o DigitChar(n % 10)

(***************************************************************************)
(* Python values: None, float (a finite decimal, nan or inf) and str.      *)
(***************************************************************************)
None == [kind |-> "None", s |-> "", m |-> 0, e |-> 0]
NaN == [kind |-> "nan", s |-> "", m |-> 0, e |-> 0]
Inf(sign) == [kind |-> "inf", s |-> "", m |-> sign, e |-> 0]
Str(s) == [kind |-> "str", s |-> s, m |-> 0, e |-> 0]

\* the float m * 10^(-e), in lowest terms
RECURSIVE Float(_, _)
Float(m, e) ==
    IF e > 0 /\ m % 10 = 0 THEN Float(m \div 10, e - 1)
    ELSE [kind |-> "float", s |-> "", m |-> m, e |-> e]

\* a function that has not returned yet
Pending == [kind |-> "pending", s |-> "", m |-> 0, e |-> 0]

IsNumber(v) == v.kind = "float"

\* pd.isna(v)
IsNa(v) == v.kind \in {"None", "nan"}

Neg(v) ==
    CASE v.kind = "float" -> Float(-v.m, v.e)
      [] v.kind = "inf" -> Inf(-v.m)
      [] OTHER -> v

\* v / 100
Div100(v) == IF v.kind = "float" THEN Float(v.m, v.e + 2) ELSE v



LowerMap ==
    [A |-> "a", B |-> "b", C |-> "c", D |-> "d", E |-> "e", F |-> "f", G |-> "g",
     H |-> "h", I |-> "i", J |-> "j", K |-> "k", L |-> "l", M |-> "m", N |-> "n",
     O |-> "o", P |-> "p", Q |-> "q", R |-> "r", S |-> "s", T |-> "t", U |-> "u",
     V |-> "v", W |-> "w", X |-> "x", Y |-> "y", Z |-> "z"]

LowerChar(c) == IF c \in DOMAIN LowerMap THEN LowerMap[c] ELSE c

\* str.lower()
RECURSIVE Lower(_)
Lower(s) ==
    IF Len(s) = 0 THEN "" ELSE LowerChar(Char(s, 1)) \o Lower(SubSeq(s, 2, Len(s)))

\* index of the first character of s that is in chars, 0 if there is none
FirstOf(s, chars) ==
    IF \E i \in 1..Len(s) : Char(s, i) \in chars
    THEN CHOOSE i \in 1..Len(s) :
            Char(s, i) \in chars /\ \A j \in 1..(i - 1) : Char(s, j) \notin chars
    ELSE 0

RECURSIVE Zeros(_)
Zeros(n) == IF n <= 0 THEN "" ELSE "0" \o Zeros(n - 1)

(***************************************************************************)
(* float(s): Python's float constructor on a string.  The outcome is a     *)
(* float, or ValueError.  Grammar: [sign] (digits [. [digits]] | . digits) *)
(* [(e|E) [sign] digits], or [sign] inf | infinity | nan in any case.      *)
(* (Underscore digit separators are not in any modelled cell.)             *)
(***************************************************************************)
ValueError == [kind |-> "ValueError", s |-> "", m |-> 0, e |-> 0]

\* the float m * 10^(-e) of a parsed numeral
Scaled(m, e) == IF e >= 0 THEN Float(m, e) ELSE Float(m * Pow10(-e), 0)

\* the numeral <intPart>.<fracPart>e<expSign><expDigits>, if it is one
ParseDigits(sign, intPart, fracPart, hasExp, expSign, expDigits) ==
    IF ~( /\ AllDigits(intPart) /\ AllDigits(fracPart)
          /\ Len(intPart) + Len(fracPart) > 0
          /\ (hasExp => (Len(expDigits) > 0 /\ AllDigits(expDigits))) )
    THEN ValueError
    ELSE Scaled(sign * DigitsToInt(intPart \o fracPart),
                Len(fracPart) - (IF hasExp THEN expSign * DigitsToInt(expDigits) ELSE 0))

ParseMantissa(sign, mant, dot, hasExp, expo) ==
    ParseDigits(sign,
                IF dot = 0 THEN mant ELSE SubSeq(mant, 1, dot - 1),
                IF dot = 0 THEN "" ELSE SubSeq(mant, dot + 1, Len(mant)),
                hasExp,
                IF Len(expo) > 0 /\ Char(expo, 1) = "-" THEN -1 ELSE 1,
                IF Len(expo) > 0 /\ Char(expo, 1) \in {"+", "-"}
                THEN SubSeq(expo, 2, Len(expo)) ELSE expo)

ParseExponent(sign, body, ePos) ==
    ParseMantissa(sign,
                  IF ePos = 0 THEN body ELSE SubSeq(body, 1, ePos - 1),
                  FirstOf(IF ePos = 0 THEN body ELSE SubSeq(body, 1, ePos - 1), {"."}),
                  ePos # 0,
                  IF ePos = 0 THEN "" ELSE SubSeq(body, ePos + 1, Len(body)))

ParseUnsigned(sign, body, lower) ==
    IF lower \in {"inf", "infinity"} THEN Inf(sign)
    ELSE IF lower = "nan" THEN NaN
    ELSE ParseExponent(sign, body, FirstOf(body, {"e", "E"}))

ParseSigned(sign, body) == ParseUnsigned(sign, body, Lower(body))

ParseStripped(s) ==
    ParseSigned(IF Len(s) > 0 /\ Char(s, 1) = "-" THEN -1 ELSE 1,
                IF Len(s) > 0 /\ Char(s, 1) \in {"+", "-"} THEN SubSeq(s, 2, Len(s)) ELSE s)

\* float(str): the number a text spells, or ValueError
PyFloat(str) == ParseStripped(Strip(str))

(***************************************************************************)
(* str(v): Python's repr of a float (shortest digits; scientific notation  *)
(* when the decimal point lies more than 3 places left of, or 16 right of, *)
(* the first digit), of an int, and of a str.                              *)
(***************************************************************************)
\* the digits D of a float with the decimal point after the first decpt
FloatRepr(sgn, D, decpt, x) ==
    IF decpt > 16 \/ decpt < -3
    THEN sgn \o Char(D, 1)
             \o (IF Len(D) > 1 THEN "." \o SubSeq(D, 2, Len(D)) ELSE "")
             \o "e" \o (IF x < 0 THEN "-" ELSE "+")
             \o (IF Abs(x) < 10 THEN "0" ELSE "") \o IntToDigits(Abs(x))
    ELSE IF decpt <= 0 THEN sgn \o "0." \o Zeros(-decpt) \o D
    ELSE IF decpt >= Len(D) THEN sgn \o D \o Zeros(decpt - Len(D)) \o ".0"
    ELSE sgn \o SubSeq(D, 1, decpt) \o "." \o SubSeq(D, decpt + 1, Len(D))

\* shortest digits: the trailing zeros of the mantissa are dropped
ShortestDigits(all) ==
    SubSeq(all, 1, Len(all) - (CHOOSE k \in 0..Len(all) :
                                /\ \A j \in (Len(all) - k + 1)..Len(all) : Char(all, j) = "0"
                                /\ (k < Len(all) => Char(all, Len(all) - k) # "0")))

FloatStr(sgn, all, e) == FloatRepr(sgn, ShortestDigits(all), Len(all) - e, Len(all) - e - 1)

PyStr(v) ==
    CASE v.kind = "str" -> v.s
      [] v.kind = "int" -> (IF v.m < 0 THEN "-" ELSE "") \o IntToDigits(Abs(v.m))
      [] v.kind = "nan" -> "nan"
      [] v.kind = "None" -> "None"
      [] v.kind = "inf" -> (IF v.m < 0 THEN "-inf" ELSE "inf")
      [] v.kind = "float" ->
            IF v.m = 0 THEN "0.0"
            ELSE FloatStr(IF v.m < 0 THEN "-" ELSE "", IntToDigits(Abs(v.m)), v.e)

(***************************************************************************)
(* DataCleaner._clean_numeric_value (data_cleaner.py:88-130).              *)
(* The em dash and the euro, pound and yen signs are written with ASCII    *)
(* stand-ins that occur in no modelled cell otherwise.                     *)
(***************************************************************************)
EmDash == "~"
Euro == "^"
Pound == "#"
Yen == "@"

\* data_cleaner.py:105
Placeholders == {"-", EmDash, "N/A", "n/a", "NA"}

\* a slip: the minus sign stripped with the currency symbols
CurrencyAndSeparators_Minus == {"$", Euro, Pound, Yen, ",", "-"} \cup Whitespace

\* data_cleaner.py:115  r'[\$€£¥,\s]'
CurrencyAndSeparators == {"$", Euro, Pound, Yen, ","} \cup Whitespace

\* a slip: a parse failure defaults to 0.0
FloatOrNone_ZeroDefault(s) ==
    LET f == PyFloat(s) IN IF f = ValueError THEN Float(0, 0) ELSE f

\* try: float(s)  except ValueError: return None   (data_cleaner.py:120-123, 126-130)
FloatOrNone(s) ==
    LET f == PyFloat(s) IN IF f = ValueError THEN None ELSE f

\* data_cleaner.py:125-130
Signed(is_negative, numeric_value) ==
    IF is_negative THEN Neg(numeric_value) ELSE numeric_value

\* data_cleaner.py:117-130.  The percentage branch returns float(...) / 100
\* without looking at is_negative.
CleanStripped(is_negative, value_str) ==
    IF Contains(value_str, "%")
    THEN Div100(FloatOrNone(RemoveChars(value_str, {"%"})))
    ELSE Signed(is_negative, FloatOrNone(value_str))

\* data_cleaner.py:108-115
CleanStr(is_negative, value_str) ==
    CleanStripped(is_negative,
                  RemoveChars(IF is_negative THEN SubSeq(value_str, 2, Len(value_str) - 1)
                              ELSE value_str,
                              CurrencyAndSeparators))

\* data_cleaner.py:104-112
CleanText(value_str) ==
    IF value_str = "" \/ value_str \in Placeholders THEN None
    ELSE CleanStr(StartsWith(value_str, "(") /\ EndsWith(value_str, ")"), value_str)

\* data_cleaner.py:88-130
clean_numeric_value(v) == IF IsNa(v) THEN None ELSE CleanText(Strip(PyStr(v)))

(***************************************************************************)
(* The raw cells the cleaner is run on.                                    *)
(***************************************************************************)
CellAlphabet == {"(", ")", "$", ",", " ", "%", "-", ".", "0", "1"}

RECURSIVE Strings(_, _)
Strings(alphabet, n) ==
    IF n = 0 THEN {""}
    ELSE LET shorter == Strings(alphabet, n - 1)
         IN  shorter \cup {s \o c : s \in shorter, c \in alphabet}

ExampleCells ==
    {"N/A", "n/a", "NA", EmDash, "nan", "inf", "(1,234.50)", "$45,000", "12%",
     "(12%)", "1e-05", "( $ 1,250.75 )", "abc", "1.2.3"}

RawCells ==
    {Str(s) : s \in Strings(CellAlphabet, MaxCellLen)}
    \cup {Str("(" \o s \o ")") : s \in Strings(CellAlphabet, MaxCellLen)}
    \cup {Str(s) : s \in ExampleCells}
    \cup {Float(m, e) : m \in (-MaxMantissa)..MaxMantissa, e \in 0..MaxDecimals}
    \cup {[kind |-> "int", s |-> "", m |-> m, e |-> 0] :
              m \in (-MaxMantissa)..MaxMantissa}
    \cup {NaN, None}

IdleClean == value = None /\ cleaned = Pending
IdleNames == name = None /\ normalized = Pending
IdleDetect == sheet_df = [ncols |-> 0, first_col |-> <<>>] /\ stmt_type = "pending"
IdleCons == workbook = None /\ income_file = None /\ annual_income = None /\ master_income = Pending
IdleBound == raw_df = None /\ boundaries = [kind |-> "pending", start_row |-> 0, end_row |-> 0]
IdleExtract == source_df = None /\ extractor = "none" /\ extracted = Pending
IdleBatch == listing = None /\ run = None
IdleTrim == trimmed = Pending
IdleClass == sheet_names = <<>> /\ categories = Pending /\ header_cols = None /\ named_columns = Pending
IdleColumns == sheet_names = <<>> /\ categories = Pending
IdleLater == IdleBound /\ IdleExtract /\ results = Pending /\ IdleBatch /\ IdleTrim /\ IdleClass
IdleButClean == IdleNames /\ IdleDetect /\ IdleCons /\ IdleLater
IdleButNames == IdleClean /\ IdleDetect /\ IdleCons /\ IdleLater
IdleButDetect == IdleClean /\ IdleNames /\ IdleCons /\ IdleLater
IdleButCons == IdleClean /\ IdleNames /\ IdleDetect /\ workbook = None /\ IdleLater
IdleButPipeline == IdleClean /\ IdleNames /\ IdleDetect /\ IdleLater
IdleEarly == IdleClean /\ IdleNames /\ IdleDetect /\ IdleCons /\ IdleClass
IdleButClass ==
    /\ IdleClean /\ IdleNames /\ IdleDetect /\ IdleCons
    /\ IdleBound /\ IdleExtract /\ results = Pending /\ IdleBatch /\ IdleTrim
    /\ header_cols = None /\ named_columns = Pending
IdleButColumns ==
    /\ IdleClean /\ IdleNames /\ IdleDetect /\ IdleCons
    /\ IdleBound /\ IdleExtract /\ results = Pending /\ IdleBatch /\ IdleTrim
    /\ IdleColumns
IdleButBound == IdleEarly /\ IdleExtract /\ results = Pending /\ IdleBatch /\ IdleTrim
IdleButExtract == IdleEarly /\ IdleBound /\ results = Pending /\ IdleBatch /\ IdleTrim
IdleButBatch == IdleEarly /\ IdleBound /\ IdleExtract /\ results = Pending /\ IdleTrim
IdleButTrim ==
    /\ IdleEarly /\ IdleExtract /\ results = Pending /\ IdleBatch
    /\ boundaries = [kind |-> "pending", start_row |-> 0, end_row |-> 0]
IdleButReport ==
    /\ IdleClean /\ IdleNames /\ IdleDetect /\ IdleBound /\ IdleBatch /\ IdleTrim /\ IdleClass
    /\ income_file = None /\ annual_income = None /\ master_income = Pending
    /\ source_df = None /\ extracted = Pending

InitClean ==
    /\ value \in RawCells
    /\ cleaned = Pending
    /\ IdleButClean

\* one call of DataCleaner._clean_numeric_value on the cell
CleanNumericValue ==
    /\ cleaned = Pending
    /\ cleaned' = clean_numeric_value(value)
    /\ UNCHANGED <<value, notClean>>

\* the returned number is handed to the cleaner again
CleanAgain ==
    /\ IsNumber(cleaned)
    /\ value' = cleaned
    /\ cleaned' = Pending
    /\ UNCHANGED notClean

NextClean == CleanNumericValue \/ CleanAgain

SpecClean == InitClean /\ [][NextClean]_vars


(***************************************************************************)
(* ValueNormalizer claims (checked under SpecClean).                       *)
(***************************************************************************)
CountChar(s, c) == Cardinality({i \in 1..Len(s) : Char(s, i) = c})

\* the text of a cell as the specification's rules 2-4 leave it: trimmed, one
\* pair of surrounding parentheses, the currency symbols, separators,
\* whitespace and percent signs removed
ReducedText(s) ==
    LET t == Strip(s)
        u == IF Len(t) >= 2 /\ Char(t, 1) = "(" /\ Char(t, Len(t)) = ")"
             THEN SubSeq(t, 2, Len(t) - 1) ELSE t
    IN  RemoveChars(u, {"$", Euro, Pound, Yen, ",", " ", "%"})

\* text that is no decimal numeral (and none of Python's float words)
Unparsable(u) ==
    /\ Lower(u) \notin {"nan", "inf", "infinity", "-nan", "-inf", "-infinity",
                        "+nan", "+inf", "+infinity"}
    /\ \/ \A i \in 1..Len(u) : Char(u, i) \notin Digits
       \/ CountChar(u, ".") > 1
       \/ \E i \in 1..Len(u) : Char(u, i) \notin (Digits \cup {".", "+", "-", "e", "E"})
       \/ \E i \in 2..Len(u) :
             Char(u, i) \in {"+", "-"} /\ Char(u, i - 1) \notin {"e", "E"}

\* C6: the cleaner never raises; placeholder tokens, cells that are empty
\* after stripping and cells that are no number come back as None (missing),
\* and 0 comes back only for a cell that spells a zero.
C6_NeverRaisesMissingNotZero ==
    cleaned # Pending =>
        /\ cleaned.kind \in {"None", "float", "nan", "inf"}
        /\ value.kind = "str" =>
              /\ Strip(value.s) \in {"", "-", EmDash, "N/A", "n/a"} => cleaned = None
              /\ ReducedText(value.s) = "" => cleaned = None
              /\ Unparsable(ReducedText(value.s)) => cleaned = None
              /\ cleaned = Float(0, 0) => Contains(value.s, "0")

\* C6 witness: a cell holding a digit that still is no number came back None
C6_Witness ==
    /\ value.kind = "str" /\ Contains(value.s, "1")
    /\ Unparsable(ReducedText(value.s))
    /\ cleaned = None

\* C7: a cell "(" s ")" whose s (without parentheses of its own) cleans to the
\* number n cleans to -n, percentages included.
C7_ParenthesesNegate ==
    (/\ cleaned # Pending /\ value.kind = "str"
     /\ Len(value.s) >= 2 /\ Char(value.s, 1) = "(" /\ Char(value.s, Len(value.s)) = ")")
    => LET s == SubSeq(value.s, 2, Len(value.s) - 1)
           n == clean_numeric_value(Str(s))
       IN  (IsNumber(n) /\ ~Contains(s, "(") /\ ~Contains(s, ")")) => cleaned = Neg(n)

\* C8: a numeric cell (float or int) cleans to the same number, so cleaning
\* the cleaner's own output changes nothing.
C8_IdempotentOnNumbers ==
    (cleaned # Pending /\ value.kind \in {"float", "int"}) =>
        /\ cleaned.kind = "float"
        /\ cleaned.m = value.m
        /\ cleaned.e = value.e

\* C8 witness: a negative number with decimals came back as itself
C8_Witness ==
    /\ value.kind = "float" /\ value.m < 0 /\ value.e > 0
    /\ cleaned = value


(***************************************************************************)
(* DataCleaner.normalize_item_names (data_cleaner.py:214-276).             *)
(*                                                                         *)
(* Every pattern of the mapping table has the shape .*P1.*P2...Pk.* and is *)
(* applied with re.match, so it matches exactly when P1..Pk occur in this  *)
(* order without overlapping.  A piece Pi is written as the set of literal *)
(* texts it stands for (an optional character or an alternation gives      *)
(* several).  Labels hold no line break, which `.` would not cross.        *)
(***************************************************************************)
Rule(pieces, standard_name) == [pattern |-> pieces, standard_name |-> standard_name]

\* data_cleaner.py:236-260, in dictionary (insertion) order
mappings == <<
    Rule(<<{"cash"}, {"cash equivalents"}>>, "Cash and cash equivalents"),
    Rule(<<{"short"}, {"term"}, {"investments", "investment"}>>, "Short-term investments"),
    Rule(<<{"accounts receivable", "account receivable"}>>, "Accounts receivable"),
    Rule(<<{"inventories"}>>, "Inventories"),
    Rule(<<{"total current assets"}>>, "Total current assets"),
    Rule(<<{"property"}, {"equipment"}>>, "Property and equipment"),
    Rule(<<{"total assets"}>>, "Total assets"),
    Rule(<<{"accounts payable", "account payable"}>>, "Accounts payable"),
    Rule(<<{"accrued"}, {"expenses"}>>, "Accrued expenses"),
    Rule(<<{"total current liabilities"}>>, "Total current liabilities"),
    Rule(<<{"total liabilities"}>>, "Total liabilities"),
    Rule(<<{"stockholders", "stockholder"}, {" equity"}>>, "Stockholders equity"),
    Rule(<<{"shareholders", "shareholder"}, {" equity"}>>, "Stockholders equity"),
    Rule(<<{"net revenues", "net revenue"}>>, "Net revenues"),
    Rule(<<{"cost of goods", "cost of revenue"}, {"sold"}>>, "Cost of revenues"),
    Rule(<<{"gross profit"}>>, "Gross profit"),
    Rule(<<{"research"}, {"development"}>>, "Research and development"),
    Rule(<<{"selling"}, {"general"}, {"administrative"}>>,
         "Selling, general and administrative"),
    Rule(<<{"operating income", "operating profit"}>>, "Operating income"),
    Rule(<<{"operating loss"}>>, "Operating loss"),
    Rule(<<{"net income"}>>, "Net income"),
    Rule(<<{"net loss"}>>, "Net loss"),
    Rule(<<{"basic earnings per share", "basic loss per share",
            "diluted earnings per share", "diluted loss per share"}>>,
         "Earnings per share") >>

\* the positions just behind the occurrences of a piece that start at or after `from`
EndsOfPiece(s, from, piece) ==
    {j \in from..(Len(s) + 1) :
        \E alt \in piece : j - Len(alt) >= from /\ SubSeq(s, j - Len(alt), j - 1) = alt}

Min(S) == CHOOSE x \in S : \A y \in S : x <= y

\* re.match(r'.*P1.*P2...Pk.*', s) is not None
RECURSIVE MatchFrom(_, _, _, _)
MatchFrom(s, pattern, k, from) ==
    IF k > Len(pattern) THEN TRUE
    ELSE LET ends == EndsOfPiece(s, from, pattern[k])
         IN  ends # {} /\ MatchFrom(s, pattern, k + 1, Min(ends))

ReMatch(pattern, s) == MatchFrom(s, pattern, 1, 1)

\* data_cleaner.py:272  `return name`
Unmatched(label, name_lower) == label

\* a slip: the last matching rule wins
FirstMatch_Last(name_lower) ==
    LET hits == {i \in 1..Len(mappings) : ReMatch(mappings[i].pattern, name_lower)}
    IN  IF hits = {} THEN 0 ELSE CHOOSE i \in hits : \A j \in hits : j <= i

\* data_cleaner.py:268-270: the rule the loop returns from, 0 if it runs out
RECURSIVE FirstMatchFrom(_, _)
FirstMatchFrom(name_lower, i) ==
    IF i > Len(mappings) THEN 0
    ELSE IF ReMatch(mappings[i].pattern, name_lower) THEN i
    ELSE FirstMatchFrom(name_lower, i + 1)

FirstMatch(name_lower) == FirstMatchFrom(name_lower, 1)

\* data_cleaner.py:268-272
StandardNameOr(label, name_lower, hit) ==
    IF hit # 0 THEN Str(mappings[hit].standard_name) ELSE Unmatched(label, name_lower)

NormalizeLowered(label, name_lower) ==
    StandardNameOr(label, name_lower, FirstMatch(name_lower))

\* data_cleaner.py:262-272
normalize_name(label) ==
    IF IsNa(label) THEN label ELSE NormalizeLowered(label, Strip(Lower(PyStr(label))))

(***************************************************************************)
(* The raw labels the normalizer is run on: phrases of filings, joined.    *)
(***************************************************************************)
LabelPhrases ==
    {"Net revenues", "Total revenue", "Revenue", "Total liabilities",
     "and stockholders' equity", "Shareholders equity", "NET INCOME", "Net loss",
     "(loss) per share", " Other items ", "Cost of goods sold"}

RECURSIVE JoinedPhrases(_)
JoinedPhrases(n) ==
    IF n = 0 THEN {""}
    ELSE LET shorter == JoinedPhrases(n - 1)
         IN  shorter \cup {IF a = "" THEN b ELSE a \o " " \o b :
                              a \in shorter, b \in LabelPhrases}

RawLabels == {Str(s) : s \in JoinedPhrases(MaxLabelParts)} \cup {NaN}

InitNames ==
    /\ name \in RawLabels
    /\ normalized = Pending
    /\ IdleButNames

\* df_copy[item_column].apply(normalize_name), for one row
NormalizeName ==
    /\ normalized = Pending
    /\ normalized' = normalize_name(name)
    /\ UNCHANGED <<name, notNames>>

\* the normalized label is normalized again (a table cleaned twice)
NormalizeAgain ==
    /\ normalized.kind = "str"
    /\ name' = normalized
    /\ normalized' = Pending
    /\ UNCHANGED notNames

NextNames == NormalizeName \/ NormalizeAgain

SpecNames == InitNames /\ [][NextNames]_vars

\* the rules that match the lowercased, trimmed label
MatchingRules(label) ==
    {i \in 1..Len(mappings) : ReMatch(mappings[i].pattern, Strip(Lower(label.s)))}

\* C10: the label left in the row is the canonical name of the first rule, in
\* listed order, that matches the lowercased, trimmed label; when no rule
\* matches it is the raw label itself, case and spacing included.  The row
\* is kept (there is always a label).
C10_FirstMatchOrUnchanged ==
    (normalized # Pending /\ name.kind = "str") =>
        LET hits == MatchingRules(name)
        IN  IF hits = {} THEN normalized = name
            ELSE normalized = Str(mappings[Min(hits)].standard_name)

\* C10 witness: a label two rules match got the name of the earlier one
C10_Witness ==
    /\ name.kind = "str"
    /\ LET hits == MatchingRules(name)
       IN  /\ Cardinality(hits) >= 2
           /\ normalized = Str(mappings[Min(hits)].standard_name)

\* C10 witness of the other branch: an unmatched label with capitals and
\* padding came back as it was
C10_WitnessUnmatched ==
    /\ name = Str(" Other items ")
    /\ normalized = name

\* the three spellings of the revenue line
RevenueLabels == {Str("Net revenues"), Str("Total revenue"), Str("Revenue")}

\* C11: the normalizer gives 'Net revenues', 'Total revenue' and 'Revenue'
\* one and the same canonical key: whichever of the three labels a row
\* carries, the label left in the row is the one the other two get as well.
C11_RevenueLabelsOneKey ==
    (normalized # Pending /\ name \in RevenueLabels) =>
        \A other \in RevenueLabels : normalized = normalize_name(other)


(***************************************************************************)
(* detect_statement_type_by_content (extract_annual_reports_v2.py:18-80).  *)
(* A sheet is its number of columns and the cells of its first column.     *)
(***************************************************************************)
\* the keys of `scores`, in insertion order (extract_annual_reports_v2.py:37-43)
score_keys ==
    <<"balance_sheet", "income_statement", "cash_flow", "equity", "comprehensive_income">>

\* extract_annual_reports_v2.py:46-48, 52-55, 59-61, 65-67, 71-72
keywords(category) ==
    CASE category = "balance_sheet" ->
            {"assets", "liabilities", "cash and cash equivalents",
             "accounts receivable", "inventories", "stockholders equity",
             "property and equipment", "current assets"}
      [] category = "income_statement" ->
            {"net revenues", "revenue", "cost of revenues", "gross profit",
             "operating expenses", "research and development",
             "selling, general and administrative", "net income", "net loss",
             "loss from operations", "income from operations"}
      [] category = "cash_flow" ->
            {"cash flows", "operating activities", "investing activities",
             "financing activities", "net increase", "net decrease",
             "depreciation", "capital expenditures"}
      [] category = "equity" ->
            {"common stock", "additional paid-in capital", "retained earnings",
             "accumulated other comprehensive", "treasury stock",
             "stock-based compensation expense", "issuance of common stock"}
      [] category = "comprehensive_income" ->
            {"comprehensive income", "comprehensive loss",
             "unrealized gain", "unrealized loss"}

\* ' '.join(df.iloc[:, 0].astype(str).str.lower().tolist())
RECURSIVE JoinLower(_)
JoinLower(cells) ==
    IF Len(cells) = 0 THEN ""
    ELSE Lower(PyStr(cells[1]))
         \o (IF Len(cells) = 1 THEN "" ELSE " " \o JoinLower(Tail(cells)))

\* sum(1 for kw in <keywords> if kw in all_text)
Score(category, all_text) ==
    Cardinality({kw \in keywords(category) : Contains(all_text, kw)})

\* the `scores` dictionary, indexed by the position of the key
scores_of(all_text) ==
    [i \in 1..Len(score_keys) |-> Score(score_keys[i], all_text)]

\* max(scores, key=scores.get): the first key, in insertion order, whose score
\* no later key exceeds
RECURSIVE MaxKeyFrom(_, _, _)
MaxKeyFrom(scores, i, best) ==
    IF i > Len(score_keys) THEN best
    ELSE IF scores[i] > scores[best] THEN MaxKeyFrom(scores, i + 1, i)
    ELSE MaxKeyFrom(scores, i + 1, best)

MaxKey(scores) == MaxKeyFrom(scores, 2, 1)

\* a slip: the threshold of the comment ("if score > 2") instead of the code's
Accepted_Above2(score) == score > 2

\* extract_annual_reports_v2.py:77
Accepted(score) == score >= 2

\* extract_annual_reports_v2.py:30  df.empty or df.shape[0] < 3
TooSmall(df) == df.ncols = 0 \/ Len(df.first_col) = 0 \/ Len(df.first_col) < 3

detect_statement_type_by_content(df) ==
    IF TooSmall(df) THEN "unknown"
    ELSE LET scores == scores_of(JoinLower(df.first_col))
             max_type == MaxKey(scores)
         IN  IF Accepted(scores[max_type]) THEN score_keys[max_type] ELSE "unknown"

(***************************************************************************)
(* The sheets the classifier is run on.                                    *)
(***************************************************************************)
FirstColumnCells ==
    {Str("Total assets"), Str("Total liabilities"), Str("Net revenues"),
     Str("Cash flows"), Str("Depreciation"),
     Str("Common stock"), Str("Retained earnings"), Str("Unrealized"),
     Str("gain on comprehensive income"), NaN}

RECURSIVE Columns(_)
Columns(n) ==
    IF n = 0 THEN {<<>>}
    ELSE LET shorter == Columns(n - 1)
         IN  shorter \cup {Append(c, x) : c \in shorter, x \in FirstColumnCells}

ExampleSheets ==
    {[ncols |-> 2,
      first_col |-> <<Str("Total assets"), Str("Total liabilities"),
                      Str("Stockholders equity"), Str("Cash and cash equivalents")>>],
     [ncols |-> 0, first_col |-> <<NaN, NaN, NaN>>]}

Sheets ==
    {[ncols |-> 2, first_col |-> c] : c \in Columns(MaxSheetRows)} \cup ExampleSheets

InitDetect ==
    /\ sheet_df \in Sheets
    /\ stmt_type = "pending"
    /\ IdleButDetect

\* one call of detect_statement_type_by_content
DetectStatementType ==
    /\ stmt_type = "pending"
    /\ stmt_type' = detect_statement_type_by_content(sheet_df)
    /\ UNCHANGED <<sheet_df, notDetect>>

NextDetect == DetectStatementType

SpecDetect == InitDetect /\ [][NextDetect]_vars

\* the highest of the five keyword counts of a sheet
HighestCount(scores) ==
    CHOOSE n \in {scores[i] : i \in DOMAIN scores} : \A i \in DOMAIN scores : scores[i] <= n

\* the categories holding the highest count, as positions in the priority order
Leaders(scores) ==
    LET hi == HighestCount(scores) IN {i \in DOMAIN scores : scores[i] = hi}

PyInt(n) == [kind |-> "int", s |-> "", m |-> n, e |-> 0]

DataFrame(columns, rows) == [kind |-> "DataFrame", columns |-> columns, rows |-> rows]

\* the columns the extractor puts in front of the period columns
\* (extract_annual_reports.py:90-93, excel_parser.py:155-161)
MetadataColumns ==
    <<"filename", "company", "form_type", "filing_date", "year", "source_file",
      "statement_type", "sheet_name", "line_item">>

\* data_consolidation.py:166-168
NotValueColumns ==
    {"year", "line_item", "filename", "company", "form_type", "filing_date",
     "source_file", "statement_type", "sheet_name"}

\* data_consolidation.py:136
quarterly_col_names == <<"june_30", "september_30", "december_31", "march_31">>

\* v > a / 10^b for a float v (nan compares False, inf by its sign)
GreaterThan(v, a, b) ==
    CASE v.kind = "float" -> v.m * Pow10(b) > a * Pow10(v.e)
      [] v.kind = "inf" -> v.m > 0
      [] OTHER -> FALSE

\* abs(v)
AbsFloat(v) ==
    CASE v.kind = "float" -> Float(Abs(v.m), v.e)
      [] v.kind = "inf" -> Inf(1)
      [] OTHER -> v

\* float(val) of a cell read back from the CSV: a number or a text
AsFloat(val) == IF val.kind = "str" THEN PyFloat(val.s) ELSE val

\* pd.notna(val) and val != ''
HasData(val) == ~IsNa(val) /\ val # Str("")

\* a slip: one quarter-end value is enough
has_quarterly_AnyQuarter(columns, row) ==
    Cardinality({q \in 1..Len(quarterly_col_names) :
                    \E c \in 1..Len(columns) :
                        /\ columns[c] = quarterly_col_names[q]
                        /\ HasData(row.cells[c])}) >= 1

\* data_consolidation.py:135-141
has_quarterly(columns, row) ==
    Cardinality({q \in 1..Len(quarterly_col_names) :
                    \E c \in 1..Len(columns) :
                        /\ columns[c] = quarterly_col_names[q]
                        /\ HasData(row.cells[c])}) >= 2

\* data_consolidation.py:146-163
sheet_priority(row) ==
    LET sheet_name == Lower(PyStr(row.sheet_name))
    IN  IF Contains(sheet_name, "financial statement") THEN 0
        ELSE IF Contains(sheet_name, "consolidated")
                /\ (Contains(sheet_name, "operation") \/ Contains(sheet_name, "balance"))
        THEN 1
        ELSE IF Contains(sheet_name, "operations") \/ Contains(sheet_name, "income") THEN 2
        ELSE IF Contains(sheet_name, "balance") THEN 3
        ELSE IF Contains(sheet_name, "valuation") \/ Contains(sheet_name, "contingent") THEN 4
        ELSE IF Contains(sheet_name, "consideration") THEN 8
        ELSE IF Contains(sheet_name, "management") \/ Contains(sheet_name, "selected financial")
        THEN 9
        ELSE 5

\* a slip: zero and noise values are kept
AboveNoiseFloor_AnyValue(num_val) == num_val.kind \in {"float", "inf"}

\* data_consolidation.py:173  abs(num_val) > 0.01
AboveNoiseFloor(num_val) == GreaterThan(AbsFloat(num_val), 1, 2)

\* a slip: the signed value is kept
CellValues_Signed(priority, col_idx, num_val) ==
    IF num_val # ValueError /\ AboveNoiseFloor(num_val)
    THEN <<[priority |-> priority, col_idx |-> col_idx, v |-> num_val]>>
    ELSE <<>>

\* data_consolidation.py:172-176: the tuple of one cell, if float(val) succeeds
\* and the value is above the noise floor
CellValues(priority, col_idx, num_val) ==
    IF num_val # ValueError /\ AboveNoiseFloor(num_val)
    THEN <<[priority |-> priority, col_idx |-> col_idx, v |-> AbsFloat(num_val)]>>
    ELSE <<>>

\* data_consolidation.py:165-176: the (sheet_priority, col_idx, abs(num_val))
\* tuples of one row, in column order; col_idx counts the metadata columns
RECURSIVE RowValuesFrom(_, _, _, _)
RowValuesFrom(columns, row, priority, c) ==
    IF c > Len(columns) THEN <<>>
    ELSE (IF columns[c] \notin NotValueColumns /\ HasData(row.cells[c])
          THEN CellValues(priority, Len(MetadataColumns) + c - 1, AsFloat(row.cells[c]))
          ELSE <<>>)
         \o RowValuesFrom(columns, row, priority, c + 1)

\* data_consolidation.py:132-176: the tuples of the matching rows, in row order,
\* rows with 2 or more quarterly values skipped
RECURSIVE ValuesOfMatches(_, _)
ValuesOfMatches(columns, matches) ==
    IF Len(matches) = 0 THEN <<>>
    ELSE LET row == Head(matches)
             rest == ValuesOfMatches(columns, Tail(matches))
         IN  IF has_quarterly(columns, row) THEN rest
             ELSE RowValuesFrom(columns, row, sheet_priority(row), 1) \o rest

\* data_consolidation.py:123-129  line_item.str.lower().str.contains(pattern.lower())
LabelContains(line_item, name_pattern) ==
    line_item.kind = "str" /\ Contains(Lower(line_item.s), Lower(name_pattern))

Matches(year_data, name_pattern) ==
    SelectSeq(year_data, LAMBDA r : LabelContains(r.line_item, name_pattern))

\* data_consolidation.py:122-179: the label variants are tried in order and the
\* loop stops at the first one that yields any value
RECURSIVE AllValuesFrom(_, _, _, _)
AllValuesFrom(columns, year_data, possible_names, i) ==
    IF i > Len(possible_names) THEN <<>>
    ELSE LET all_values == ValuesOfMatches(columns, Matches(year_data, possible_names[i]))
         IN  IF all_values # <<>> THEN all_values
             ELSE AllValuesFrom(columns, year_data, possible_names, i + 1)

\* (x[0], x[1]) of the sort key
KeyLess(a, b) ==
    a.priority < b.priority \/ (a.priority = b.priority /\ a.col_idx < b.col_idx)

\* list.sort(key=lambda x: (x[0], x[1])): stable
RECURSIVE InsertSorted(_, _)
InsertSorted(sorted, x) ==
    IF sorted = <<>> THEN <<x>>
    ELSE IF KeyLess(x, sorted[Len(sorted)])
         THEN Append(InsertSorted(SubSeq(sorted, 1, Len(sorted) - 1), x), sorted[Len(sorted)])
         ELSE Append(sorted, x)

RECURSIVE Sort(_)
Sort(seq) ==
    IF seq = <<>> THEN <<>>
    ELSE InsertSorted(Sort(SubSeq(seq, 1, Len(seq) - 1)), seq[Len(seq)])

\* data_consolidation.py:181-189
Resolve(all_values) ==
    IF all_values = <<>> THEN None
    ELSE LET sorted == Sort(all_values)
             large_values == SelectSeq(sorted, LAMBDA x : GreaterThan(x.v, 100, 0))
         IN  IF large_values # <<>> THEN large_values[1].v ELSE sorted[1].v

\* sorted(df['year'].unique())
RECURSIVE SortedInts(_)
SortedInts(S) ==
    IF S = {} THEN <<>> ELSE <<Min(S)>> \o SortedInts(S \ {Min(S)})

RowsOfYear(df, year) == SelectSeq(df.rows, LAMBDA r : r.year = PyInt(year))

StandardNames(item_mappings) ==
    {item_mappings[i].standard_name : i \in 1..Len(item_mappings)}

\* data_consolidation.py:111-195.  int(year) raises ValueError on a missing year.
extract_key_financial_items(df, item_mappings) ==
    IF \E i \in 1..Len(df.rows) : IsNa(df.rows[i].year) THEN ValueError
    ELSE LET years == SortedInts({df.rows[i].year.m : i \in 1..Len(df.rows)})
             row_data(year) ==
                 [year |-> year,
                  cells |->
                    [standard_name \in StandardNames(item_mappings) |->
                        LET i == CHOOSE k \in 1..Len(item_mappings) :
                                    item_mappings[k].standard_name = standard_name
                        IN  Resolve(AllValuesFrom(df.columns, RowsOfYear(df, year),
                                                  item_mappings[i].possible_names, 1))]]
         IN  [kind |-> "DataFrame", rows |-> [k \in 1..Len(years) |-> row_data(years[k])]]

Item(standard_name, possible_names) ==
    [standard_name |-> standard_name, possible_names |-> possible_names]

\* data_consolidation.py:204-221
income_item_mappings == <<
    Item("revenue", <<"net revenue", "total revenue", "revenue">>),
    Item("cost_of_revenue", <<"cost of goods sold", "cost of revenue", "cogs">>),
    Item("gross_profit", <<"gross profit">>),
    Item("research_development", <<"research", "r&d", "research and development">>),
    Item("selling_general_admin", <<"selling, general", "sg&a", "sga">>),
    Item("operating_expenses", <<"total operating expense", "operating expense">>),
    Item("operating_income", <<"operating income", "operating profit">>),
    Item("operating_loss", <<"operating loss">>),
    Item("interest_expense", <<"interest expense">>),
    Item("other_income", <<"other income", "interest and other income">>),
    Item("income_before_tax", <<"income before tax", "pretax income">>),
    Item("tax_expense", <<"income tax", "tax expense", "provision for income">>),
    Item("net_income", <<"net income">>),
    Item("net_loss", <<"net loss">>),
    Item("eps_basic", <<"basic", "per share, basic">>),
    Item("eps_diluted", <<"diluted", "per share, diluted">>) >>

\* a slip: the loss is merged without its sign
net_income_final_Unsigned(cells) ==
    IF ~IsNa(cells["net_income"]) THEN cells["net_income"]
    ELSE IF ~IsNa(cells["net_loss"]) THEN cells["net_loss"]
    ELSE None

\* data_consolidation.py:230-231
net_income_final(cells) ==
    IF ~IsNa(cells["net_income"]) THEN cells["net_income"]
    ELSE IF ~IsNa(cells["net_loss"]) THEN Neg(cells["net_loss"])
    ELSE None

KeyError == [kind |-> "KeyError", s |-> "", m |-> 0, e |-> 0]

\* data_consolidation.py:228-240.  A MasterTable without rows has no columns,
\* and reading its 'year' column raises KeyError.
WithNetIncomeFinal(master) ==
    IF master = ValueError THEN ValueError
    ELSE IF master.rows = <<>> THEN KeyError
    ELSE [kind |-> "DataFrame",
          rows |-> [k \in 1..Len(master.rows) |->
                      [year |-> master.rows[k].year,
                       cells |-> master.rows[k].cells @@
                                 ("net_income_final" :>
                                     net_income_final(master.rows[k].cells))]]]

\* data_consolidation.py:197-240
create_master_income_statement(df) ==
    IF df = None THEN None
    ELSE WithNetIncomeFinal(extract_key_financial_items(df, income_item_mappings))

(***************************************************************************)
(* The CSV file of income statements.  A file is its period columns and    *)
(* its rows; every field of a row is the text written between the commas.  *)
(***************************************************************************)
CsvFile(columns, rows) == [kind |-> "csv", columns |-> columns, rows |-> rows]

\* the texts pd.read_csv reads as missing (its default na_values)
NaTexts ==
    {"", "#N/A", "#N/A N/A", "#NA", "-1.#IND", "-1.#QNAN", "-NaN", "-nan", "1.#IND",
     "1.#QNAN", "<NA>", "N/A", "NA", "NULL", "NaN", "None", "n/a", "nan", "null"}

\* a text column: the text itself, or NaN
ReadText(text) == IF text \in NaTexts THEN NaN ELSE Str(text)

\* the 'year' column, written from the four digits of the filing date
ReadYear(text) == IF text \in NaTexts THEN NaN ELSE PyInt(DigitsToInt(text))

\* one field of a period column, before the type of the column is settled:
\* NaN, the number it spells, or ValueError
ReadNumber(text) == IF text \in NaTexts THEN NaN ELSE PyFloat(text)

\* a period column becomes numeric when every field that is not missing
\* spells a number, and stays text otherwise
ReadField(parsed, text, c, i) ==
    IF \A k \in 1..Len(parsed) : parsed[k][c] # ValueError THEN parsed[i][c]
    ELSE IF parsed[i][c] = NaN THEN NaN
    ELSE Str(text)

ReadRows(file, parsed) ==
    [i \in 1..Len(file.rows) |->
        [year |-> ReadYear(file.rows[i].year),
         line_item |-> ReadText(file.rows[i].line_item),
         sheet_name |-> ReadText(file.rows[i].sheet_name),
         cells |-> [c \in 1..Len(file.columns) |->
                      ReadField(parsed, file.rows[i].cells[c], c, i)]]]

\* pd.read_csv(income_file), data_consolidation.py:42
read_csv(file) ==
    DataFrame(file.columns,
              ReadRows(file, [i \in 1..Len(file.rows) |->
                                [c \in 1..Len(file.columns) |->
                                    ReadNumber(file.rows[i].cells[c])]]))

IncomeColumns == <<"fy_2023", "june_30", "september_30">>

Record(year, line_item, sheet_name, cells) ==
    [year |-> year, line_item |-> line_item, sheet_name |-> sheet_name, cells |-> cells]

Annual(text) == <<text, "", "">>

\* rows of income_statements.csv as the annual extraction writes them
Records == {
    Record("2023", "Net revenues", "Selected Financial Data", Annual("33.4")),
    Record("2023", "Total revenue", "Consolidated Statements of Operations",
           Annual("33400.0")),
    Record("2022", "Revenue", "Income Statement", Annual("50.0")),
    Record("2023", "Revenue", "Quarterly Results", <<"", "8000.0", "9000.0">>),
    Record("2023", "Net income", "Consolidated Statements of Operations",
           Annual("-5000.0")),
    Record("2023", "Net loss", "Consolidated Statements of Operations", Annual("1200.0")),
    Record("2022", "Net loss", "Management Discussion of Operations", Annual("-7.5")),
    Record("2022", "Net income per share, basic", "Other", Annual("0.005")),
    Record("2023", "Cost of revenue", "Financial Statements", Annual("0.0")),
    Record("2022", "Gross profit", "Management Discussion", <<"n/a", "", "45">>),
    Record("2022", "Cost of goods sold", "Valuation Accounts", <<"inf", "", "see note">>),
    Record("2022", "Revenue", "Other", Annual("5000.0")),
    Record("", "Revenue", "Balance", Annual("1.0")) }

RECURSIVE RowsUpTo(_)
RowsUpTo(n) ==
    IF n = 0 THEN {<<>>}
    ELSE RowsUpTo(n - 1)
            \cup {Append(rows, r) : rows \in {t \in RowsUpTo(n - 1) : Len(t) = n - 1},
                                    r \in Records}

InputFiles == {CsvFile(IncomeColumns, rows) : rows \in RowsUpTo(MaxRecords)}

InitConsolidate ==
    /\ income_file \in InputFiles \cup {None}
    /\ annual_income = None
    /\ master_income = Pending
    /\ IdleButCons

\* load_all_data (data_consolidation.py:23-72): the CSV is read when it exists
LoadAllData ==
    /\ annual_income = None
    /\ master_income = Pending
    /\ annual_income' = IF income_file = None THEN None ELSE read_csv(income_file)
    /\ UNCHANGED <<income_file, master_income, workbook, notPipeline>>

CreateMasterIncomeStatement ==
    /\ master_income = Pending
    /\ master_income' = create_master_income_statement(annual_income)
    /\ UNCHANGED <<income_file, annual_income, workbook, notPipeline>>

NextConsolidate == LoadAllData \/ CreateMasterIncomeStatement

SpecConsolidate == InitConsolidate /\ [][NextConsolidate]_vars


(***************************************************************************)
(* Properties of the consolidation.                                        *)
(***************************************************************************)
Produced == master_income.kind = "DataFrame"

ItemNames == StandardNames(income_item_mappings)

VariantsOf(standard_name) ==
    LET i == CHOOSE k \in 1..Len(income_item_mappings) :
                income_item_mappings[k].standard_name = standard_name
    IN  {income_item_mappings[i].possible_names[j] :
            j \in 1..Len(income_item_mappings[i].possible_names)}

\* a number of magnitude above 0.01
Qualifies(num_val) == GreaterThan(AbsFloat(num_val), 1, 2)

\* the cells <<row, column>> of the loaded table that are candidates for an
\* item of a year: a non-quarterly row of the year whose label contains one of
\* the item's variants, a value column, a number above the noise floor
CandidateCells(df, year, standard_name) ==
    {rc \in (1..Len(df.rows)) \X (1..Len(df.columns)) :
        LET row == df.rows[rc[1]]
            val == row.cells[rc[2]]
        IN  /\ row.year = PyInt(year)
            /\ \E variant \in VariantsOf(standard_name) :
                    LabelContains(row.line_item, variant)
            /\ ~has_quarterly(df.columns, row)
            /\ HasData(val)
            /\ Qualifies(AsFloat(val))}

CellValue(df, rc) == AbsFloat(AsFloat(df.rows[rc[1]].cells[rc[2]]))

CellPriority(df, rc) == sheet_priority(df.rows[rc[1]])

\* C1: for every year and item, a candidate of magnitude > 100 from a sheet
\* of strictly better priority than every other candidate of the item (over
\* all of the item's label variants) is the resolved value.
C1_BestPriorityLargeValueWins ==
    Produced =>
        \A k \in 1..Len(master_income.rows) : \A item \in ItemNames :
            LET year == master_income.rows[k].year
                cands == CandidateCells(annual_income, year, item)
            IN  \A c \in cands :
                    ( /\ GreaterThan(CellValue(annual_income, c), 100, 0)
                      /\ \A d \in cands \ {c} :
                            CellPriority(annual_income, c) < CellPriority(annual_income, d) )
                    => master_income.rows[k].cells[item] = CellValue(annual_income, c)

InputYears == {annual_income.rows[i].year.m : i \in 1..Len(annual_income.rows)}

\* C2: the MasterTable has exactly one row per distinct year of the input, and
\* a cell with no qualifying candidate is the missing marker; no cell is 0.
C2_OneRowPerYearMissingNotZero ==
    Produced =>
        /\ \A i, j \in 1..Len(master_income.rows) :
                master_income.rows[i].year = master_income.rows[j].year => i = j
        /\ {master_income.rows[k].year : k \in 1..Len(master_income.rows)} = InputYears
        /\ \A k \in 1..Len(master_income.rows) : \A item \in ItemNames :
                LET cell == master_income.rows[k].cells[item]
                IN  /\ CandidateCells(annual_income, master_income.rows[k].year, item) = {}
                        => cell = None
                    /\ cell # Float(0, 0)

\* two records of one year give one row, and a zero cost of revenue is missing
C2_Witness ==
    /\ Produced
    /\ Len(annual_income.rows) = 2
    /\ Len(master_income.rows) = 1
    /\ \E i \in 1..2 :
          /\ annual_income.rows[i].line_item = Str("Cost of revenue")
          /\ annual_income.rows[i].cells[1] = Float(0, 0)
    /\ master_income.rows[1].cells["cost_of_revenue"] = None
    /\ master_income.rows[1].cells["revenue"] # None

Present(v) == v.kind \in {"float", "inf"}

\* C5: net_income_final is net_income when present, else the negation of
\* net_loss when present, else missing.
C5_NetIncomeFinal ==
    Produced =>
        \A k \in 1..Len(master_income.rows) :
            LET cells == master_income.rows[k].cells
            IN  /\ Present(cells["net_income"])
                    => cells["net_income_final"] = cells["net_income"]
                /\ (~Present(cells["net_income"]) /\ Present(cells["net_loss"]))
                    => /\ Present(cells["net_income_final"])
                       /\ Neg(cells["net_income_final"]) = cells["net_loss"]
                /\ (~Present(cells["net_income"]) /\ ~Present(cells["net_loss"]))
                    => cells["net_income_final"] = None

\* one year reports a net income, the other only a net loss of 7.5
C5_Witness ==
    /\ Produced
    /\ \E k \in 1..Len(master_income.rows) :
          /\ master_income.rows[k].cells["net_income"] = None
          /\ master_income.rows[k].cells["net_loss"] = Float(75, 1)
          /\ master_income.rows[k].cells["net_income_final"] = Float(-75, 1)
    /\ \E k \in 1..Len(master_income.rows) :
          /\ master_income.rows[k].cells["net_income"] = Float(5000, 0)
          /\ master_income.rows[k].cells["net_income_final"] = Float(5000, 0)


(***************************************************************************)
(* The annual extraction (extract_annual_reports.py).  A frame is a sheet  *)
(* as pandas holds it: column labels, index labels and rows of cells.      *)
(***************************************************************************)
Frame(columns, index, rows) == [columns |-> columns, index |-> index, rows |-> rows]

EmptyFrame == Frame(<<>>, <<>>, <<>>)

\* df.empty
IsEmpty(df) == Len(df.rows) = 0 \/ Len(df.columns) = 0

Indices(n) == [i \in 1..n |-> i]

\* pd.read_excel names the columns after the first row of the sheet: an empty
\* header cell is "Unnamed: <position>", a repeated one gets ".<count>"
HeaderLabel(header, c) ==
    IF IsNa(header[c]) THEN Str("Unnamed: " \o IntToDigits(c - 1))
    ELSE LET earlier == Cardinality({d \in 1..(c - 1) : header[d] = header[c]})
         IN  IF earlier = 0 THEN header[c]
             ELSE Str(PyStr(header[c]) \o "." \o IntToDigits(earlier))

\* ExcelParser.read_sheet (excel_parser.py:32-43)
read_sheet(grid) ==
    IF grid = <<>> THEN EmptyFrame
    ELSE Frame([c \in 1..Len(grid[1]) |-> HeaderLabel(grid[1], c)],
               [i \in 1..(Len(grid) - 1) |-> i - 1],
               Tail(grid))

\* Series.count(): the cells that are not missing
NonNull(cells) == Cardinality({i \in 1..Len(cells) : ~IsNa(cells[i])})

\* data_cleaner.py:17-37 with threshold = num / den; dropna keeps the index
\* labels of the rows it keeps
remove_empty_rows_and_columns(df, num, den) ==
    LET row_threshold == (num * Len(df.columns)) \div den
        kept_rows == SelectSeq(Indices(Len(df.rows)),
                               LAMBDA i : NonNull(df.rows[i]) >= row_threshold)
        col_threshold == (num * Len(kept_rows)) \div den
        column(c) == [k \in 1..Len(kept_rows) |-> df.rows[kept_rows[k]][c]]
        kept_cols == SelectSeq(Indices(Len(df.columns)),
                               LAMBDA c : NonNull(column(c)) >= col_threshold)
    IN  Frame([j \in 1..Len(kept_cols) |-> df.columns[kept_cols[j]]],
              [k \in 1..Len(kept_rows) |-> df.index[kept_rows[k]]],
              [k \in 1..Len(kept_rows) |->
                  [j \in 1..Len(kept_cols) |-> df.rows[kept_rows[k]][kept_cols[j]]]])

\* extract_annual_reports.py:45-46
header_keywords ==
    <<"march", "fiscal", "year ended", "2020", "2021", "2022", "2023", "2024", "2025">>

\* extract_annual_reports.py:43
row_str(cells) == JoinLower(SelectSeq(cells, LAMBDA val : ~IsNa(val)))

HasHeaderKeyword(text) ==
    \E i \in 1..Len(header_keywords) : Contains(text, header_keywords[i])

\* extract_annual_reports.py:41-48: the index label of the first row with a
\* keyword, 0 when there is none
RECURSIVE HeaderRowFrom(_, _)
HeaderRowFrom(df, k) ==
    IF k > Len(df.rows) THEN 0
    ELSE IF HasHeaderKeyword(row_str(df.rows[k])) THEN df.index[k]
    ELSE HeaderRowFrom(df, k + 1)

Letters ==
    {Char("abcdefghijklmnopqrstuvwxyzABCDEFGHIJKLMNOPQRSTUVWXYZ", i) : i \in 1..52}

\* what [^\w\s\-/] leaves in place
PeriodNameChars == Letters \cup Digits \cup {"_", "-", "/"} \cup Whitespace

RECURSIVE KeepChars(_, _)
KeepChars(s, chars) ==
    IF Len(s) = 0 THEN ""
    ELSE (IF Char(s, 1) \in chars THEN Char(s, 1) ELSE "")
         \o KeepChars(SubSeq(s, 2, Len(s)), chars)

\* re.sub(r'\s+', '_', s)
RECURSIVE CollapseWhitespace(_)
CollapseWhitespace(s) ==
    IF Len(s) = 0 THEN ""
    ELSE IF Char(s, 1) \in Whitespace THEN "_" \o CollapseWhitespace(LStrip(s))
    ELSE Char(s, 1) \o CollapseWhitespace(SubSeq(s, 2, Len(s)))

\* re.search(r'(20\d{2})', s): where the first match starts, 0 for no match
YearAt(s) ==
    LET at == {p \in 1..(Len(s) - 3) :
                 /\ SubSeq(s, p, p + 1) = "20"
                 /\ Char(s, p + 2) \in Digits
                 /\ Char(s, p + 3) \in Digits}
    IN  IF at = {} THEN 0 ELSE Min(at)

MaxColumnName == 50

\* extract_annual_reports.py:72-75
period_name(col_str) ==
    LET clean_name == Lower(CollapseWhitespace(KeepChars(col_str, PeriodNameChars)))
    IN  SubSeq(clean_name, 1, Min({MaxColumnName, Len(clean_name)}))

\* extract_annual_reports.py:63-75, for a column after the first
NamePeriodColumn(i, col, col_str) ==
    IF IsNa(col) \/ col_str \in {"", "nan", "None"} THEN "year_" \o IntToDigits(i)
    ELSE IF YearAt(col_str) # 0
         THEN "fy_" \o SubSeq(col_str, YearAt(col_str), YearAt(col_str) + 3)
    ELSE period_name(col_str)

\* extract_annual_reports.py:59-75: the name of the column at position i
new_column(i, col) ==
    IF i = 0 THEN "line_item" ELSE NamePeriodColumn(i, col, Strip(PyStr(col)))

\* a slip: rows without a canonical name are left out
HasLineItem_MappedOnly(label, text) ==
    ~IsNa(label) /\ Strip(text) # "" /\ FirstMatch(Strip(Lower(text))) # 0

\* extract_annual_reports.py:80-81
HasLineItem(label, text) == ~IsNa(label) /\ Strip(text) # ""

\* pd.to_numeric(errors='coerce') on what _clean_numeric_value returned
to_numeric(v) == IF v = None THEN NaN ELSE v

HasDuplicates(names) ==
    \E i, j \in 1..Len(names) : i # j /\ names[i] = names[j]

IndexError == [kind |-> "IndexError", s |-> "", m |-> 0, e |-> 0]

TypeError == [kind |-> "TypeError", s |-> "", m |-> 0, e |-> 0]

\* data_cleaner.py:66-73 with a repeated column name: df_copy[col] is a frame.
\* With rows, apply hands _clean_numeric_value a whole column and the truth
\* value of pd.isna(column) raises ValueError; without rows apply returns the
\* empty frame and pd.to_numeric(frame) raises TypeError.
RepeatedColumnError(rows) == IF Len(rows) > 0 THEN ValueError ELSE TypeError

\* pd.DataFrame()
NoTable == DataFrame(<<>>, <<>>)

\* extract_annual_reports.py:83-95: the cleaned, normalized rows under the
\* metadata columns; clean_financial_values raises on a repeated column name
CleanedTable(new_columns, rows, sheet_name, metadata) ==
    IF HasDuplicates(Tail(new_columns)) THEN RepeatedColumnError(rows)
    ELSE DataFrame(Tail(new_columns),
            [k \in 1..Len(rows) |->
                [year |-> metadata.year,
                 line_item |-> normalize_name(rows[k][1]),
                 sheet_name |-> Str(sheet_name),
                 cells |-> [c \in 1..(Len(new_columns) - 1) |->
                              to_numeric(clean_numeric_value(rows[k][c + 1]))]]])

\* extract_annual_reports.py:54-95
StructureTable(df, sheet_name, metadata) ==
    IF df = IndexError THEN IndexError
    ELSE IF IsEmpty(df) THEN NoTable
    ELSE CleanedTable([i \in 1..Len(df.columns) |-> new_column(i - 1, df.columns[i])],
                      SelectSeq(df.rows, LAMBDA r : HasLineItem(r[1], PyStr(r[1]))),
                      sheet_name, metadata)

\* extract_annual_reports.py:50-52: header_row is an index label, df.iloc
\* takes it as a position and raises IndexError beyond the last row
SetHeader(df, header_row) ==
    IF header_row = 0 THEN df
    ELSE IF header_row >= Len(df.rows) THEN IndexError
    ELSE Frame(df.rows[header_row + 1],
               Indices(Len(df.rows) - header_row - 1),
               SubSeq(df.rows, header_row + 2, Len(df.rows)))

\* extract_annual_reports.py:35-38
CleanedFrame(df, sheet_name, metadata) ==
    IF IsEmpty(df) \/ Len(df.rows) < 2 THEN NoTable
    ELSE StructureTable(SetHeader(df, HeaderRowFrom(df, 1)), sheet_name, metadata)

\* extract_annual_reports.py:18-95
extract_financial_table(df, table_type, sheet_name, metadata) ==
    CleanedFrame(remove_empty_rows_and_columns(df, 3, 10), sheet_name, metadata)


Keywords(category, kws) == [category |-> category, kws |-> kws]

\* excel_parser.py:205-213
sheet_keywords == <<
    Keywords("balance_sheet", {"balance sheet", "balance", "assets", "liabilities"}),
    Keywords("income_statement", {"income statement", "income", "operations", "profit", "loss"}),
    Keywords("cash_flow", {"cash flow", "cash"}),
    Keywords("comprehensive_income", {"comprehensive"}),
    Keywords("equity", {"equity", "stockholders", "shareholders"}),
    Keywords("compensation", {"compensation", "executive"}),
    Keywords("notes", {"note", "accounting pronouncements", "fair value", "investment"}) >>

\* excel_parser.py:216-226: the first category with a keyword in the name
RECURSIVE CategoryFrom(_, _)
CategoryFrom(sheet_lower, i) ==
    IF i > Len(sheet_keywords) THEN "other"
    ELSE IF \E kw \in sheet_keywords[i].kws : Contains(sheet_lower, kw)
         THEN sheet_keywords[i].category
    ELSE CategoryFrom(sheet_lower, i + 1)

\* a slip: the name is not lowercased
sheet_category_CaseSensitive(sheet_name) == CategoryFrom(sheet_name, 1)

sheet_category(sheet_name) == CategoryFrom(Lower(sheet_name), 1)

\* excel_parser.py:194-203
category_names ==
    <<"balance_sheet", "income_statement", "cash_flow", "comprehensive_income",
      "equity", "compensation", "notes", "other">>

\* excel_parser.py:215-226: each sheet is appended to the list of its category
RECURSIVE CategorizeFrom(_, _, _)
CategorizeFrom(lists, names, i) ==
    IF i > Len(names) THEN lists
    ELSE CategorizeFrom([lists EXCEPT ![sheet_category(names[i])] = Append(@, names[i])],
                        names, i + 1)

\* excel_parser.py:187-228
find_financial_statement_sheets(names) ==
    CategorizeFrom([c \in {category_names[i] : i \in 1..Len(category_names)} |-> <<>>],
                   names, 1)

MaxIncomeSheets == 3

\* if not df_clean.empty: results['income_statements'].append(df_clean); a
\* sheet whose extraction raised is skipped by the except clause
NonEmptyTables(tables) ==
    SelectSeq(tables, LAMBDA df_clean : df_clean.kind = "DataFrame" /\ Len(df_clean.rows) > 0)

ExtractedTables(sheets, metadata) ==
    NonEmptyTables([k \in 1..Len(sheets) |->
                      extract_financial_table(read_sheet(sheets[k].grid), "income_statement",
                                              sheets[k].sheet_name, metadata)])

FirstSheets(named) == SubSeq(named, 1, Min({MaxIncomeSheets, Len(named)}))

\* extract_annual_reports.py:135-142: the tables of the first three sheets
\* that find_financial_statement_sheets files under income_statement
income_statements_of(wb) ==
    ExtractedTables(FirstSheets(SelectSeq(wb.sheets,
                        LAMBDA s : sheet_category(s.sheet_name) = "income_statement")),
                    [year |-> wb.year])

\* the columns of pd.concat: in the order they first appear
RECURSIVE ConcatColumns(_)
ConcatColumns(tables) ==
    IF Len(tables) = 0 THEN <<>>
    ELSE LET before == ConcatColumns(SubSeq(tables, 1, Len(tables) - 1))
             last == tables[Len(tables)].columns
         IN  before \o SelectSeq(last, LAMBDA col :
                                    \A i \in 1..Len(before) : before[i] # col)

\* a row of a table under the columns of the concatenation
Reindexed(table, row, columns) ==
    [row EXCEPT !.cells =
        [c \in 1..Len(columns) |->
            IF \E j \in 1..Len(table.columns) : table.columns[j] = columns[c]
            THEN row.cells[CHOOSE j \in 1..Len(table.columns) : table.columns[j] = columns[c]]
            ELSE NaN]]

RECURSIVE ConcatRows(_, _)
ConcatRows(tables, columns) ==
    IF Len(tables) = 0 THEN <<>>
    ELSE [k \in 1..Len(tables[1].rows) |-> Reindexed(tables[1], tables[1].rows[k], columns)]
         \o ConcatRows(Tail(tables), columns)

\* pd.concat(all_income_statements, ignore_index=True)
concat(tables) == DataFrame(ConcatColumns(tables), ConcatRows(tables, ConcatColumns(tables)))

\* one field of the CSV: nothing for a missing value, str() otherwise
WriteField(v) == IF IsNa(v) THEN "" ELSE PyStr(v)

CsvRow(texts) ==
    [year |-> texts[1], line_item |-> texts[2], sheet_name |-> texts[3],
     cells |-> SubSeq(texts, 4, Len(texts))]

FieldsOf(row) == <<row.year, row.line_item, row.sheet_name>> \o row.cells

\* df.to_csv(output_file, index=False)
to_csv(df) ==
    CsvFile(df.columns,
        [i \in 1..Len(df.rows) |->
            CsvRow([f \in 1..(3 + Len(df.columns)) |-> WriteField(FieldsOf(df.rows[i])[f])])])

\* extract_annual_reports.py:192-305, for the income statements of one 10-K:
\* the file is written only when there is a table to write
WriteTables(tables) == IF Len(tables) = 0 THEN None ELSE to_csv(concat(tables))

process_all_annual_reports(wb) == WriteTables(income_statements_of(wb))


(***************************************************************************)
(* The workbooks the extraction is run on: a 10-K with up to MaxSheets     *)
(* sheets, filed in 2023 or with no date in its file name.                 *)
(***************************************************************************)
Sheet(sheet_name, grid) == [sheet_name |-> sheet_name, grid |-> grid]

Workbook(year, sheets) == [kind |-> "workbook", year |-> year, sheets |-> sheets]

Num(n) == Float(n, 0)

OperationsName == "Consolidated Statements of Operations"

QuarterlyName == "Quarterly Results of Operations"

\* two fiscal years of revenue, cost of revenue and net income
AnnualSheet(revenue, cost, income) ==
    Sheet(OperationsName,
          << <<NaN, PyInt(2023), PyInt(2022)>>,
             <<Str("Net revenues")>> \o revenue,
             <<Str("Cost of revenue")>> \o cost,
             <<Str("Net income")>> \o income >>)

AnnualSheets == {
    AnnualSheet(<<Num(33400), Num(30000)>>, <<Num(15000), Num(14000)>>,
                <<Num(2000), Num(1500)>>),
    AnnualSheet(<<Num(33400), Num(30000)>>, <<Num(15000), Num(14000)>>,
                <<Num(-5000), Num(1500)>>),
    AnnualSheet(<<NaN, Num(30000)>>, <<Num(15000), Num(14000)>>,
                <<Num(2000), Num(1500)>>) }

QuarterEnds == <<"June 30", "September 30", "December 31", "March 31">>

QuarterRows ==
    << <<Str("Net revenues"), Num(8000), Num(9000), Num(8500), Num(9500)>>,
       <<Str("Net income"), Num(400), Num(500), Num(450), Num(550)>> >>

\* the four quarters of a year, the quarter ends extended by a suffix
QuarterlySheet(title_rows, suffix) ==
    Sheet(QuarterlyName,
          title_rows
            \o << <<NaN>> \o [q \in 1..4 |-> Str(QuarterEnds[q] \o suffix[q])] >>
            \o QuarterRows)

QuarterlySheets == {
    QuarterlySheet(<<>>, <<"", "", "", "">>),
    QuarterlySheet(<<>>, <<" (unaudited)", " (unaudited)", " (unaudited)", " (unaudited)">>),
    QuarterlySheet(<<>>, <<", 2022", ", 2022", ", 2022", ", 2023">>),
    QuarterlySheet(<< <<Str("Quarterly results (unaudited)"), NaN, NaN, NaN, NaN>> >>,
                   <<"", "", "", "">>) }

BalanceSheets == {
    Sheet("Consolidated Balance Sheets",
          << <<NaN, PyInt(2023), PyInt(2022)>>,
             <<Str("Total assets"), Num(90000), Num(80000)>>,
             <<Str("Total liabilities"), Num(20000), Num(10000)>> >>) }

WorkbookSheets == AnnualSheets \cup QuarterlySheets \cup BalanceSheets

\* the sheets of a workbook have different names
RECURSIVE SheetsUpTo(_)
SheetsUpTo(n) ==
    IF n = 0 THEN {<<>>}
    ELSE SheetsUpTo(n - 1)
            \cup {Append(sheets, s) :
                    sheets \in {w \in SheetsUpTo(n - 1) : Len(w) = n - 1},
                    s \in WorkbookSheets}

DistinctNames(sheets) ==
    \A i, j \in 1..Len(sheets) : sheets[i].sheet_name = sheets[j].sheet_name => i = j

Workbooks ==
    {Workbook(year, sheets) :
        year \in {Str("2023"), None},
        sheets \in {w \in SheetsUpTo(MaxSheets) : Len(w) > 0 /\ DistinctNames(w)}}

InitPipeline ==
    /\ workbook \in Workbooks
    /\ income_file = None
    /\ annual_income = None
    /\ master_income = Pending
    /\ IdleButPipeline

\* extract_annual_reports.py main(): the income statements of the workbook
\* are extracted and written to annual_reports/income_statements.csv
ProcessAllAnnualReports ==
    /\ workbook # None
    /\ income_file = None
    /\ annual_income = None
    /\ master_income = Pending
    /\ income_file' = process_all_annual_reports(workbook)
    /\ UNCHANGED <<workbook, annual_income, master_income, notPipeline>>

NextPipeline == ProcessAllAnnualReports \/ LoadAllData \/ CreateMasterIncomeStatement

SpecPipeline == InitPipeline /\ [][NextPipeline]_vars


(***************************************************************************)
(* Properties of extraction followed by consolidation.                     *)
(***************************************************************************)
\* the label each round-trip item has in the synthetic workbook
RoundTripItems ==
    [revenue |-> "Net revenues", cost_of_revenue |-> "Cost of revenue",
     net_income |-> "Net income"]

\* a workbook of one two-year statement of operations
IsSynthetic(wb) ==
    wb.kind = "workbook" /\ Len(wb.sheets) = 1 /\ wb.sheets[1] \in AnnualSheets

SourceYears(sheet) == {sheet.grid[1][c].m : c \in 2..Len(sheet.grid[1])}

\* the value the sheet states for an item and a fiscal year
SourceValue(sheet, item, year) ==
    LET r == CHOOSE r \in 2..Len(sheet.grid) : sheet.grid[r][1] = Str(RoundTripItems[item])
        c == CHOOSE c \in 2..Len(sheet.grid[1]) : sheet.grid[1][c] = PyInt(year)
    IN  sheet.grid[r][c]

\* C3: after extraction and consolidation of a synthetic two-year workbook,
\* the revenue, cost_of_revenue and net_income cells of every MasterTable row
\* for one of its fiscal years equal the source values, sign included, and
\* are missing where the source has no value.
C3_RoundTrip ==
    (Produced /\ IsSynthetic(workbook)) =>
        \A k \in 1..Len(master_income.rows) : \A item \in DOMAIN RoundTripItems :
            LET year == master_income.rows[k].year
                sheet == workbook.sheets[1]
            IN  year \in SourceYears(sheet) =>
                    master_income.rows[k].cells[item] =
                        (IF IsNa(SourceValue(sheet, item, year)) THEN None
                         ELSE SourceValue(sheet, item, year))

\* a sheet with a row of four quarter-end headers, every row below it
\* populated in all four columns
IsQuarterly(sheet) ==
    \E h \in 1..Len(sheet.grid) :
        /\ Len(sheet.grid[h]) = Len(QuarterEnds) + 1
        /\ \A q \in 1..Len(QuarterEnds) :
              /\ sheet.grid[h][q + 1].kind = "str"
              /\ Contains(sheet.grid[h][q + 1].s, QuarterEnds[q])
              /\ \A r \in (h + 1)..Len(sheet.grid) : IsNumber(sheet.grid[r][q + 1])

QuarterValues(sheet) ==
    {sheet.grid[r][c] : r \in 2..Len(sheet.grid), c \in 2..(Len(QuarterEnds) + 1)}

\* C4: no value of a quarterly sheet of the workbook is a cell of the
\* MasterTable, whatever else its quarter-end headers contain.
C4_QuarterlySheetExcluded ==
    (Produced /\ workbook.kind = "workbook") =>
        \A i \in 1..Len(workbook.sheets) :
            IsQuarterly(workbook.sheets[i]) =>
                \A k \in 1..Len(master_income.rows) : \A item \in ItemNames :
                    master_income.rows[k].cells[item] \notin QuarterValues(workbook.sheets[i])


(***************************************************************************)
(* ExcelParser.detect_table_boundaries (excel_parser.py:119-145), called   *)
(* by extract_8k_data on the frame read_sheet returned.                    *)
(***************************************************************************)
Boundaries(start_row, end_row) ==
    [kind |-> "tuple", start_row |-> start_row, end_row |-> end_row]

NoBoundaries == [kind |-> "pending", start_row |-> 0, end_row |-> 0]

\* a slip: a row filled to exactly 30% starts the table
MostlyFilled_AtLeast(row) == 10 * NonNull(row) >= 3 * Len(row)

\* excel_parser.py:132-133: row.notna().sum() / len(row) > 0.3.  The quotient
\* of two small integers exceeds the double 0.3 exactly when the fraction
\* exceeds 3/10; a row of no cells gives nan, which exceeds nothing.
MostlyFilled(row) == 10 * NonNull(row) > 3 * Len(row)

\* excel_parser.py:130-135: the index label of the first such row, else 0
RECURSIVE StartRowFrom(_, _)
StartRowFrom(df, i) ==
    IF i > Len(df.rows) THEN 0
    ELSE IF MostlyFilled(df.rows[i]) THEN df.index[i]
    ELSE StartRowFrom(df, i + 1)

\* a slip: the position of that row, not one past it
RECURSIVE EndRowFrom_Position(_, _)
EndRowFrom_Position(df, i) ==
    IF i < 1 THEN Len(df.rows)
    ELSE IF NonNull(df.rows[i]) > 1 THEN i - 1
    ELSE EndRowFrom_Position(df, i - 1)

\* excel_parser.py:138-143: from the last row upwards, one past the position
\* of the first row with more than one cell, else len(df)
RECURSIVE EndRowFrom(_, _)
EndRowFrom(df, i) ==
    IF i < 1 THEN Len(df.rows)
    ELSE IF NonNull(df.rows[i]) > 1 THEN i
    ELSE EndRowFrom(df, i - 1)

detect_table_boundaries(df) ==
    Boundaries(StartRowFrom(df, 1), EndRowFrom(df, Len(df.rows)))

(***************************************************************************)
(* The sheets searched: a header row and up to MaxGridRows rows; a row has *)
(* some cells at its left or at its right and the rest missing.            *)
(***************************************************************************)
GridWidths == {1, 2, 3, 4, 10}

GridRow(width, filled, left) ==
    [c \in 1..width |->
        IF (left /\ c <= filled) \/ (~left /\ c > width - filled)
        THEN Str("x") ELSE NaN]

\* how a row is filled: the number of cells, and the side they are on
Fillings(width) == (0..width) \X BOOLEAN

GridOf(width, fills) ==
    <<GridRow(width, width, TRUE)>>
        \o [i \in 1..Len(fills) |-> GridRow(width, fills[i][1], fills[i][2])]

InitBoundaries ==
    /\ \E w \in GridWidths, n \in 0..MaxGridRows :
          \E fills \in [1..n -> Fillings(w)] : raw_df = read_sheet(GridOf(w, fills))
    /\ boundaries = NoBoundaries
    /\ IdleButBound

\* start_row, end_row = parser.detect_table_boundaries(df)
DetectTableBoundaries ==
    /\ boundaries = NoBoundaries
    /\ boundaries' = detect_table_boundaries(raw_df)
    /\ UNCHANGED <<raw_df, notBound>>

NextBoundaries == DetectTableBoundaries

SpecBoundaries == InitBoundaries /\ [][NextBoundaries]_vars

\* the rows, by position from 0, filled to more than 30%
FilledRows(df) ==
    {i \in 0..(Len(df.rows) - 1) :
        10 * Cardinality({c \in 1..Len(df.rows[i + 1]) : ~IsNa(df.rows[i + 1][c])})
            > 3 * Len(df.rows[i + 1])}

\* the rows, by position from 0, with at least two cells that are not missing
DataRows(df) ==
    {i \in 0..(Len(df.rows) - 1) :
        Cardinality({c \in 1..Len(df.rows[i + 1]) : ~IsNa(df.rows[i + 1][c])}) >= 2}

Max(S) == CHOOSE x \in S : \A y \in S : y <= x

C12_WitnessAllMissing ==
    /\ Len(raw_df.rows) = MaxGridRows
    /\ \A i \in 1..Len(raw_df.rows) : NonNull(raw_df.rows[i]) = 0
    /\ boundaries = Boundaries(0, MaxGridRows)


(***************************************************************************)
(* extract_financial_table_v2 (extract_annual_reports_v2.py:83-169).       *)
(***************************************************************************)
\* extract_annual_reports_v2.py:113
has_context(text) == \E pattern \in {"march", "year ended", "fiscal"} : Contains(text, pattern)

\* extract_annual_reports_v2.py:114-115
has_multiple_years(text) ==
    Cardinality({y \in {"2020", "2021", "2022", "2023", "2024", "2025"} :
                    Contains(text, y)}) >= 2

\* extract_annual_reports_v2.py:108-119: the index label of the first row
\* with context or two years, 0 when there is none
RECURSIVE HeaderRowFromV2(_, _)
HeaderRowFromV2(df, k) ==
    IF k > Len(df.rows) THEN 0
    ELSE IF has_context(row_str(df.rows[k])) \/ has_multiple_years(row_str(df.rows[k]))
         THEN df.index[k]
    ELSE HeaderRowFromV2(df, k + 1)

\* the characters of \w
WordChars == Letters \cup Digits \cup {"_"}

MaxColumnNameV2 == 30

\* extract_annual_reports_v2.py:143-145
CleanNameOr(clean_name, i) ==
    IF clean_name = "" THEN "col_" \o IntToDigits(i) ELSE clean_name

period_name_v2(col_str, i) ==
    LET clean_name == Lower(CollapseWhitespace(KeepChars(col_str, WordChars \cup Whitespace)))
    IN  CleanNameOr(SubSeq(clean_name, 1, Min({MaxColumnNameV2, Len(clean_name)})), i)

\* extract_annual_reports_v2.py:134-145, for a column after the first
NamePeriodColumnV2(i, col, col_str) ==
    IF YearAt(col_str) # 0
    THEN "fy_" \o SubSeq(col_str, YearAt(col_str), YearAt(col_str) + 3)
    ELSE IF IsNa(col) \/ col_str \in {"", "nan", "None"} THEN "col_" \o IntToDigits(i)
    ELSE period_name_v2(col_str, i)   \* (no header here is a zero-width space)

\* extract_annual_reports_v2.py:130-145: the name of the column at position i
new_column_v2(i, col) ==
    IF i = 0 THEN "line_item" ELSE NamePeriodColumnV2(i, col, Strip(PyStr(col)))

\* str.match(r'^[^\w]+$')
OnlyPunctuation(text) ==
    Len(text) > 0 /\ \A p \in 1..Len(text) : Char(text, p) \notin WordChars

\* extract_annual_reports_v2.py:150-153, on the stripped text of the label
HasLineItemV2(label, text) == ~IsNa(label) /\ text # "" /\ ~OnlyPunctuation(text)

\* extract_annual_reports_v2.py:150-167 were a repeated column name cleaned
\* column by column without an exception
CleanedTableV2_Repeated(new_columns, rows, sheet_name, year) ==
    DataFrame(Tail(new_columns),
        [k \in 1..Len(rows) |->
            [year |-> year,
             line_item |-> Str(Strip(PyStr(rows[k][1]))),
             sheet_name |-> Str(sheet_name),
             cells |-> [c \in 1..(Len(new_columns) - 1) |->
                          to_numeric(clean_numeric_value(rows[k][c + 1]))]]])

\* extract_annual_reports_v2.py:150-167: the cleaned rows under the metadata
\* columns; a repeated column name makes clean_financial_values raise, as in
\* the first extractor
CleanedTableV2(new_columns, rows, sheet_name, year) ==
    IF HasDuplicates(Tail(new_columns)) THEN RepeatedColumnError(rows)
    ELSE DataFrame(Tail(new_columns),
            [k \in 1..Len(rows) |->
                [year |-> year,
                 line_item |-> Str(Strip(PyStr(rows[k][1]))),
                 sheet_name |-> Str(sheet_name),
                 cells |-> [c \in 1..(Len(new_columns) - 1) |->
                              to_numeric(clean_numeric_value(rows[k][c + 1]))]]])

\* extract_annual_reports_v2.py:125-169
StructureTableV2(df, sheet_name, year) ==
    IF df = IndexError THEN IndexError
    ELSE IF IsEmpty(df) THEN NoTable
    ELSE CleanedTableV2([i \in 1..Len(df.columns) |-> new_column_v2(i - 1, df.columns[i])],
                        SelectSeq(df.rows,
                                  LAMBDA r : HasLineItemV2(r[1], Strip(PyStr(r[1])))),
                        sheet_name, year)

\* extract_annual_reports_v2.py:104-123
CleanedFrameV2(df, sheet_name, year) ==
    IF IsEmpty(df) \/ Len(df.rows) < 2 THEN NoTable
    ELSE StructureTableV2(SetHeader(df, HeaderRowFromV2(df, 1)), sheet_name, year)

extract_financial_table_v2(df, table_type, sheet_name, metadata, year) ==
    CleanedFrameV2(remove_empty_rows_and_columns(df, 3, 10), sheet_name, year)


(***************************************************************************)
(* The sheets handed to the two table extractors: a title in the first     *)
(* line of the sheet, then up to MaxSourceRows rows of a label and three   *)
(* period cells.  The numbers of a row tell its place in the sheet.        *)
(***************************************************************************)
RowKinds ==
    {"blank", "title", "header", "other", "income", "nolabel", "dashes"}

Amounts(i) == <<Num(10 * i + 1), Num(10 * i + 2), Str("(" \o IntToDigits(10 * i + 3) \o ")")>>

SourceRow(row_kind, i) ==
    CASE row_kind = "blank"   -> <<NaN, NaN, NaN, NaN>>
      [] row_kind = "title"   -> <<Str("GSI Technology, Inc."), NaN, NaN, NaN>>
      [] row_kind = "header"  -> <<Str("(in thousands)"), Num(2023), Num(2022), Num(2021)>>
      [] row_kind = "other"   -> <<Str(" Other items")>> \o Amounts(i)
      [] row_kind = "income"  -> <<Str("NET INCOME")>> \o Amounts(i)
      [] row_kind = "nolabel" -> <<NaN>> \o Amounts(i)
      [] row_kind = "dashes"  -> <<Str("---")>> \o Amounts(i)

SourceSheet(row_kinds) ==
    read_sheet(<<<<Str(OperationsName), NaN, NaN, NaN>>>>
                   \o [i \in 1..Len(row_kinds) |-> SourceRow(row_kinds[i], i)])

FilingYear == PyInt(2023)

InitExtract ==
    /\ \E n \in 0..MaxSourceRows :
          \E row_kinds \in [1..n -> RowKinds] : source_df = SourceSheet(row_kinds)
    /\ extractor = "none"
    /\ extracted = Pending
    /\ IdleButExtract

\* df_clean = extract_financial_table(df, 'income_statement', sheet_name, metadata)
ExtractFinancialTable ==
    /\ extractor = "none"
    /\ extractor' = "v1"
    /\ extracted' = extract_financial_table(source_df, "income_statement", OperationsName,
                                            [year |-> Str(IntToDigits(FilingYear.m))])
    /\ UNCHANGED <<source_df, notExtract>>

\* df_clean = extract_financial_table_v2(df, stmt_type, sheet_name, metadata, year)
ExtractFinancialTableV2 ==
    /\ extractor = "none"
    /\ extractor' = "v2"
    /\ extracted' = extract_financial_table_v2(source_df, "income_statement", OperationsName,
                                               [year |-> Str(IntToDigits(FilingYear.m))],
                                               FilingYear)
    /\ UNCHANGED <<source_df, notExtract>>

NextExtract == ExtractFinancialTable \/ ExtractFinancialTableV2

SpecExtract == InitExtract /\ [][NextExtract]_vars

\* an output cell comes from a source cell: a label as the normalizer or
\* str.strip leaves it, an amount as the value cleaner leaves it
CellFrom(out, src, is_label) ==
    IF is_label THEN out \in {normalize_name(src), Str(Strip(PyStr(src)))}
    ELSE out = to_numeric(clean_numeric_value(src))

\* the output cells from position p on come, in order, from source cells at
\* position q or later
RECURSIVE CellsEmbed(_, _, _, _)
CellsEmbed(out, p, src, q) ==
    IF p > Len(out) THEN TRUE
    ELSE IF q > Len(src) THEN FALSE
    ELSE IF CellFrom(out[p], src[q], p = 1) THEN CellsEmbed(out, p + 1, src, q + 1)
    ELSE CellsEmbed(out, p, src, q + 1)

RowFrom(out, src) == CellsEmbed(<<out.line_item>> \o out.cells, 1, src, 1)

\* the output rows from k on come, each from a source row of its own, from
\* source rows at position i or later, in the order of the source
RECURSIVE RowsEmbed(_, _, _, _)
RowsEmbed(out, k, src, i) ==
    IF k > Len(out) THEN TRUE
    ELSE IF i > Len(src) THEN FALSE
    ELSE IF RowFrom(out[k], src[i]) THEN RowsEmbed(out, k + 1, src, i + 1)
    ELSE RowsEmbed(out, k, src, i + 1)

ExtractedBy(which, df) ==
    IF which = "v1"
    THEN extract_financial_table(df, "income_statement", OperationsName,
                                 [year |-> Str(IntToDigits(FilingYear.m))])
    ELSE extract_financial_table_v2(df, "income_statement", OperationsName,
                                    [year |-> Str(IntToDigits(FilingYear.m))], FilingYear)

\* the source rows whose label is text (not empty, not mere punctuation)
\* that no rule of the normalizer matches
UnmappedRows(df) ==
    {i \in 1..Len(df.rows) :
        /\ df.rows[i][1].kind = "str"
        /\ \E p \in 1..Len(df.rows[i][1].s) : Char(df.rows[i][1].s, p) \in WordChars
        /\ FirstMatch(Strip(Lower(df.rows[i][1].s))) = 0}

Relabelled(df, i, label) ==
    [df EXCEPT !.rows = [df.rows EXCEPT ![i] = [df.rows[i] EXCEPT ![1] = Str(label)]]]

HasRowFrom(table, src) ==
    /\ table.kind = "DataFrame"
    /\ \E k \in 1..Len(table.rows) : RowFrom(table.rows[k], src)

\* C13: the rows a table extractor returns are a subsequence of the rows of
\* the sheet: each comes from a row of its own, in the order of the sheet,
\* so none is repeated; and a row is never left out for want of a canonical
\* name: a row with an unmapped label is returned whenever the same row
\* under a canonical label would be.
C13_RowsAreSubsequence ==
    (extracted # Pending /\ extracted.kind = "DataFrame") =>
        /\ RowsEmbed(extracted.rows, 1, source_df.rows, 1)
        /\ \A i \in UnmappedRows(source_df) :
              HasRowFrom(ExtractedBy(extractor, Relabelled(source_df, i, "Net income")),
                         Relabelled(source_df, i, "Net income").rows[i])
                  => HasRowFrom(extracted, source_df.rows[i])

\* C13 witness: the second extractor returned the rows under the header in
\* the order of the sheet, the one with the unmapped label among them
C13_Witness ==
    /\ extractor = "v2"
    /\ Len(source_df.rows) = 3
    /\ extracted.kind = "DataFrame"
    /\ Len(extracted.rows) = 3
    /\ extracted.rows[2].line_item = Str("Other items")
    /\ extracted.rows[3].line_item = Str("NET INCOME")
    /\ extracted.rows[2].cells[1] = Num(21)
    /\ extracted.rows[3].cells[1] = Num(31)

\* C13 witness for the first extractor: unmapped label kept as it was, the
\* mapped one under its canonical name
C13_WitnessV1 ==
    /\ extractor = "v1"
    /\ extracted.kind = "DataFrame"
    /\ Len(extracted.rows) = 3
    /\ extracted.rows[2].line_item = Str(" Other items")
    /\ extracted.rows[3].line_item = Str("Net income")
    /\ extracted.rows[3].cells[1] = Num(31)


(***************************************************************************)
(* extract_annual_report (extract_annual_reports.py:98-189) and            *)
(* extract_annual_report_v2 (extract_annual_reports_v2.py:172-240): the    *)
(* tables of one workbook, by statement type.  What a sheet gives is kept  *)
(* as an outcome: its statement type and the table, or the exception       *)
(* raised while it was processed.                                          *)
(***************************************************************************)
Outcome(stmt, table) == [stmt_type |-> stmt, table |-> table]

Results(by_type) == [kind |-> "dict", tables |-> by_type]

ResultKeys ==
    [balance_sheet |-> "balance_sheets", income_statement |-> "income_statements",
     cash_flow |-> "cash_flows", comprehensive_income |-> "comprehensive_income",
     equity |-> "equity_statements", compensation |-> "compensation"]

IsError(table) == table.kind \in {"ValueError", "IndexError", "KeyError", "TypeError"}

\* `if not df_clean.empty:` / `if df_clean.empty: continue`
Usable(table) == table.kind = "DataFrame" /\ Len(table.rows) > 0 

TablesOfType(outcomes, stmt) ==
    LET of_type == SelectSeq(outcomes, LAMBDA o : o.stmt_type = stmt /\ Usable(o.table))
    IN  [k \in 1..Len(of_type) |-> of_type[k].table]

\* a slip: no except clause around the sheet
Collected_Uncaught(outcomes) ==
    IF \E k \in 1..Len(outcomes) : IsError(outcomes[k].table)
    THEN outcomes[Min({k \in 1..Len(outcomes) : IsError(outcomes[k].table)})].table
    ELSE Results([stmt \in DOMAIN ResultKeys |-> TablesOfType(outcomes, stmt)])

\* try: ... results[...].append(df_clean) except Exception: print a warning.
\* A sheet that raised and a sheet without rows add nothing.
Collected(outcomes) ==
    Results([stmt \in DOMAIN ResultKeys |-> TablesOfType(outcomes, stmt)])

\* extract_annual_reports.py:124-172: the limit on the sheets of a category
SheetLimit ==
    [balance_sheet |-> 3, income_statement |-> 3, cash_flow |-> 3,
     comprehensive_income |-> 2, equity |-> 2]

\* extract_annual_reports.py:175-187
compensation_table(df, sheet_name, metadata) ==
    IF ~IsEmpty(df) /\ Len(df.rows) > 2
    THEN DataFrame(Tail(df.columns),
            [k \in 1..Len(df.rows) |->
                [year |-> metadata.year, line_item |-> df.rows[k][1],
                 sheet_name |-> Str(sheet_name), cells |-> Tail(df.rows[k])]])
    ELSE NoTable

\* what the loop over one category does with the sheet at position k of it
OutcomeOfSheet(sheet, category, k, metadata) ==
    IF category = "compensation"
    THEN Outcome(category,
                 compensation_table(remove_empty_rows_and_columns(read_sheet(sheet.grid), 3, 10),
                                    sheet.sheet_name, metadata))
    ELSE IF category \in DOMAIN SheetLimit /\ k <= SheetLimit[category]
    THEN Outcome(category,
                 extract_financial_table(read_sheet(sheet.grid), category,
                                         sheet.sheet_name, metadata))
    ELSE Outcome("other", NoTable)

\* the position of sheet i among the sheets of its category
PlaceInCategory(sheets, i) ==
    Cardinality({j \in 1..i : sheet_category(sheets[j].sheet_name)
                                  = sheet_category(sheets[i].sheet_name)})

extract_annual_report(wb) ==
    Collected([i \in 1..Len(wb.sheets) |->
                  OutcomeOfSheet(wb.sheets[i], sheet_category(wb.sheets[i].sheet_name),
                                 PlaceInCategory(wb.sheets, i), [year |-> wb.year])])

\* extract_annual_reports_v2.py:201-204
skip_keywords ==
    {"exhibit", "No Title", "note", "Note", "accounting pronouncements",
     "fair value measurement", "stock pu", "compensation"}

DefaultYear == 2020

\* extract_annual_reports_v2.py:187
year_of(metadata) ==
    IF metadata.year = None \/ metadata.year.s = "" THEN PyInt(DefaultYear)
    ELSE PyInt(DigitsToInt(metadata.year.s))

\* extract_annual_reports_v2.py:212-222, for a sheet of a known type
ExtractedOutcome(df, stmt, sheet_name, metadata) ==
    IF stmt = "unknown" THEN Outcome("unknown", NoTable)
    ELSE Outcome(stmt, extract_financial_table_v2(df, stmt, sheet_name, metadata,
                                                  year_of(metadata)))

\* extract_annual_reports_v2.py:206-216
ReadOutcome(df, sheet_name, metadata) ==
    IF Len(df.rows) < 3 \/ Len(df.columns) < 2 THEN Outcome("unknown", NoTable)
    ELSE ExtractedOutcome(df,
             detect_statement_type_by_content(
                 [ncols |-> Len(df.columns),
                  first_col |-> [k \in 1..Len(df.rows) |-> df.rows[k][1]]]),
             sheet_name, metadata)

\* extract_annual_reports_v2.py:198-237, for one sheet
OutcomeOfSheetV2(sheet, metadata) ==
    IF \E kw \in skip_keywords : Contains(sheet.sheet_name, kw)
    THEN Outcome("unknown", NoTable)
    ELSE ReadOutcome(read_sheet(sheet.grid), sheet.sheet_name, metadata)

extract_annual_report_v2(wb) ==
    Collected([i \in 1..Len(wb.sheets) |-> OutcomeOfSheetV2(wb.sheets[i], [year |-> wb.year])])


(***************************************************************************)
(* The workbooks read sheet by sheet: a statement of operations, sheets    *)
(* whose processing raises, a sheet that leaves no row, a balance sheet.   *)
(***************************************************************************)
IncomeRows(i) ==
    << <<Str("Net revenues"), Num(100 * i + 1), Num(100 * i + 2), Num(100 * i + 3)>>,
       <<Str("Gross profit"), Num(100 * i + 4), Num(100 * i + 5), Num(100 * i + 6)>>,
       <<Str("Net income"), Num(100 * i + 7), Num(100 * i + 8), Num(100 * i + 9)>> >>

\* three fiscal years under clean headers
GoodSheet ==
    Sheet(OperationsName, << <<NaN, PyInt(2023), PyInt(2022), PyInt(2021)>> >> \o IncomeRows(1))

\* two headers of the same year: clean_financial_values raises ValueError
RepeatedYearSheet ==
    Sheet("Statements of Income",
          << <<NaN, Str("FY 2022"), Str("2022 restated"), Str("FY 2021")>> >> \o IncomeRows(2))

\* a dropped blank line and the header on the last line: df.iloc raises IndexError
LateHeaderSheet ==
    Sheet("Results of Operations",
          << <<NaN, NaN, NaN, NaN>>,
             <<NaN, NaN, NaN, NaN>>,
             <<Str("Net revenues"), Num(301), Num(302), Num(303)>>,
             <<Str("Net income for fiscal 2023"), Num(304), Num(305), Num(306)>> >>)

\* the header on the last line: no row is left under it
NoRowsSheet ==
    Sheet("Income taxes",
          << <<NaN, NaN, NaN, NaN>>,
             <<Str("Net revenues"), Num(401), Num(402), Num(403)>>,
             <<Str("Net income"), Num(404), Num(405), Num(406)>>,
             <<Str("Fiscal year ended March 31"), Num(2023), Num(2022), Num(2021)>> >>)

AssetsSheet ==
    Sheet("Consolidated Balance Sheets",
          << <<NaN, PyInt(2023), PyInt(2022), PyInt(2021)>>,
             <<Str("Total assets"), Num(501), Num(502), Num(503)>>,
             <<Str("Total liabilities"), Num(504), Num(505), Num(506)>>,
             <<Str("Total current assets"), Num(507), Num(508), Num(509)>> >>)

ReportSheets == <<GoodSheet, RepeatedYearSheet, LateHeaderSheet, NoRowsSheet, AssetsSheet>>

\* the sheets of a workbook, in any order, each at most once
Injective(picks) == \A i, j \in DOMAIN picks : picks[i] = picks[j] => i = j

InitReport ==
    /\ \E n \in 1..MaxSheets, year \in {Str("2023"), None} :
          \E picks \in [1..n -> 1..Len(ReportSheets)] :
              /\ Injective(picks)
              /\ workbook = Workbook(year, [i \in 1..n |-> ReportSheets[picks[i]]])
    /\ extractor = "none"
    /\ results = Pending
    /\ IdleButReport

\* results = extract_annual_report(excel_file)
ExtractAnnualReport ==
    /\ extractor = "none"
    /\ extractor' = "v1"
    /\ results' = extract_annual_report(workbook)
    /\ UNCHANGED <<workbook, notReport>>

\* results = extract_annual_report_v2(excel_file)
ExtractAnnualReportV2 ==
    /\ extractor = "none"
    /\ extractor' = "v2"
    /\ results' = extract_annual_report_v2(workbook)
    /\ UNCHANGED <<workbook, notReport>>

NextReport == ExtractAnnualReport \/ ExtractAnnualReportV2

SpecReport == InitReport /\ [][NextReport]_vars

ReportBy(which, wb) ==
    IF which = "v1" THEN extract_annual_report(wb) ELSE extract_annual_report_v2(wb)

\* the tables of a type that the sheets from i on give, each read as the only
\* sheet of a workbook
RECURSIVE TablesAlone(_, _, _, _)
TablesAlone(which, wb, stmt, i) ==
    IF i > Len(wb.sheets) THEN <<>>
    ELSE ReportBy(which, Workbook(wb.year, <<wb.sheets[i]>>)).tables[stmt]
             \o TablesAlone(which, wb, stmt, i + 1)

\* the sheets that give nothing when read alone
FailedSheets(which, wb) ==
    {i \in 1..Len(wb.sheets) :
        LET alone == ReportBy(which, Workbook(wb.year, <<wb.sheets[i]>>))
        IN  alone.kind # "dict" \/ \A stmt \in DOMAIN alone.tables : alone.tables[stmt] = <<>>}

C14_WitnessNoRows ==
    /\ results # Pending
    /\ Len(workbook.sheets) = 2
    /\ workbook.sheets[1] = NoRowsSheet
    /\ workbook.sheets[2] = GoodSheet
    /\ 1 \in FailedSheets(extractor, workbook)
    /\ Len(results.tables["income_statement"]) = 1


(***************************************************************************)
(* The batch scripts: main(), the loop over the files below the input root *)
(* and the workbook handles (extract_annual_reports.py,                    *)
(* extract_annual_reports_v2.py, extract_quarterly_reports.py,             *)
(* extract_8k_reports.py, extract_market_data.py).                         *)
(*                                                                         *)
(* A file is known by its key, the rank of (year directory name, file      *)
(* name) among the files of the tree; the operating system lists a         *)
(* directory in either order.  A file's nature says what reading it does:  *)
(* "data" yields rows, "raises" opens but every read of a sheet raises,    *)
(* "unopenable" makes pd.ExcelFile raise.                                  *)
(***************************************************************************)
MaxFiles == 3

\* the report scripts: extract_annual_reports.py, extract_annual_reports_v2.py,
\* extract_quarterly_reports.py
Extractors == {"annual", "annual_v2", "quarterly"}

Scripts == Extractors \cup {"8k", "market"}
Natures == {"data", "raises", "unopenable"}

File(name_kind, nature) == [name_kind |-> name_kind, nature |-> nature]

Listing(script, root_exists, listed, files) ==
    [script |-> script, root_exists |-> root_exists, listed |-> listed, files |-> files]

\* the year directory a file lies in: two files to a directory
YearDirOf(key) == (key + 1) \div 2

\* a directory's entries in the order the operating system gives them
RECURSIVE Reversed(_)
Reversed(seq) ==
    IF seq = <<>> THEN <<>> ELSE Append(Reversed(Tail(seq)), Head(seq))

Listed(l, keys) ==
    IF l.listed = "ascending" THEN SortedInts(keys) ELSE Reversed(SortedInts(keys))

\* [d for d in input_dir.iterdir() if d.is_dir()]
iterdir(l) == Listed(l, {YearDirOf(k) : k \in 1..Len(l.files)})

\* list(year_dir.glob("*.xlsx"))
glob(l, year_dir) == Listed(l, {k \in 1..Len(l.files) : YearDirOf(k) = year_dir})

\* sorted(...): of directories by name, of paths
sorted(seq) == SortedInts({seq[i] : i \in 1..Len(seq)})

\* the files of a year directory the loop of a script is run over
excel_files_of(l, year_dir) ==
    IF l.script \in {"annual", "annual_v2"}
    THEN SelectSeq(sorted(glob(l, year_dir)), LAMBDA k : l.files[k].name_kind = "10-K")
    ELSE sorted(glob(l, year_dir))

Handle(file, opened_by) == [file |-> file, opened_by |-> opened_by]

NoSummary == <<>>

Run(pc, year_dirs, excel_files, attempted, total_files, processed_files, all_data,
    handles, summary, exit_status) ==
    [pc |-> pc, year_dirs |-> year_dirs, excel_files |-> excel_files,
     attempted |-> attempted, total_files |-> total_files,
     processed_files |-> processed_files, all_data |-> all_data,
     handles |-> handles, summary |-> summary, exit_status |-> exit_status]

InitBatch ==
    /\ \E script \in Scripts, root_exists \in BOOLEAN, listed \in {"ascending", "descending"},
          n \in 0..MaxFiles :
          \E kinds \in [1..n -> {"10-K", "other"}], natures \in [1..n -> Natures] :
              /\ root_exists \/ (n = 0 /\ listed = "ascending")
              /\ script = "market" =>
                    /\ listed = "ascending"
                    /\ n = (IF root_exists THEN 1 ELSE 0)
                    /\ \A i \in 1..n : kinds[i] = "other"
              /\ listing = Listing(script, root_exists, listed,
                                   [i \in 1..n |-> File(kinds[i], natures[i])])
    /\ run = Run("main", <<>>, <<>>, <<>>, 0, 0, <<>>, {}, NoSummary, 0)
    /\ IdleButBatch

\* main() up to the call of the processing function
Main ==
    /\ run.pc = "main"
    /\ run' = IF ~listing.root_exists
              THEN [run EXCEPT !.pc = "exited", !.exit_status = 1]
              ELSE IF listing.script = "market"
              THEN [run EXCEPT !.pc = "loop", !.excel_files = <<1>>]
              ELSE [run EXCEPT !.pc = "loop", !.year_dirs = sorted(iterdir(listing))]
    /\ UNCHANGED <<listing, notBatch>>

\* for year_dir in year_dirs: list its files and count them
NextYearDir ==
    /\ run.pc = "loop"
    /\ run.excel_files = <<>>
    /\ run.year_dirs # <<>>
    /\ LET excel_files == excel_files_of(listing, Head(run.year_dirs))
       IN  run' = [run EXCEPT !.year_dirs = Tail(run.year_dirs),
                              !.excel_files = excel_files,
                              !.total_files = run.total_files + Len(excel_files)]
    /\ UNCHANGED <<listing, notBatch>>

\* the function whose ExcelParser(...) is reached first for a file
FirstOpener(script) ==
    CASE script = "annual" -> "extract_annual_report"
      [] script = "annual_v2" -> "extract_annual_report_v2"
      [] script = "quarterly" -> "extract_quarterly_report"
      [] script = "8k" -> "process_all_8k_files"
      [] script = "market" -> "extract_market_data"

\* try: ... ExcelParser(str(excel_file)): the handle is opened, or the
\* constructor raises and the except clause goes on to the next file (of
\* extract_market_data: returns False)
OpenWorkbook ==
    /\ run.pc = "loop"
    /\ run.excel_files # <<>>
    /\ LET excel_file == Head(run.excel_files)
           tried == [run EXCEPT !.attempted = Append(run.attempted, excel_file)]
       IN  run' = IF listing.files[excel_file].nature = "unopenable"
                  THEN [tried EXCEPT !.excel_files = Tail(run.excel_files)]
                  ELSE [tried EXCEPT
                           !.pc = "opened",
                           !.handles = run.handles \cup
                               {Handle(excel_file, FirstOpener(listing.script))}]
    /\ UNCHANGED <<listing, notBatch>>

\* process_all_8k_files calls extract_8k_data, which constructs an
\* ExcelParser of its own for the same file
ExtractData8k ==
    /\ run.pc = "opened"
    /\ listing.script = "8k"
    /\ run' = [run EXCEPT
                  !.pc = "extracting",
                  !.handles = run.handles \cup {Handle(Head(run.excel_files), "extract_8k_data")}]
    /\ UNCHANGED <<listing, notBatch>>

\* the handles parser.close() is called on once the sheets of a file were
\* read; extract_market_data reaches its close only when nothing raised
Closed(script, excel_file, nature) ==
    CASE script \in Extractors -> {Handle(excel_file, FirstOpener(script))}
      [] script = "8k" -> {Handle(excel_file, "extract_8k_data")}
      [] script = "market" ->
            IF nature = "data" THEN {Handle(excel_file, "extract_market_data")} ELSE {}

\* processed_files after a file was read without an exception reaching the loop
Counted(script, nature, processed_files) ==
    IF script \in Extractors \/ nature = "data" THEN processed_files + 1 ELSE processed_files

\* the accumulator after a file was read: all_...extend(results[...]) when
\* the file gave tables (all_data.append(df) in process_all_8k_files); the
\* tables of a file are known by the file's key
extend_Assigned(all_data, excel_file, nature) ==
    IF nature = "data" THEN <<excel_file>> ELSE all_data

extend(all_data, excel_file, nature) ==
    IF nature = "data" THEN Append(all_data, excel_file) ELSE all_data

\* the sheets of the open workbook are read (an exception of a sheet is
\* caught sheet by sheet in the batch scripts), the handle is closed and the
\* file is counted
ReadSheets ==
    /\ \/ run.pc = "opened" /\ listing.script # "8k"
       \/ run.pc = "extracting"
    /\ LET excel_file == Head(run.excel_files)
           nature == listing.files[excel_file].nature
       IN  run' = [run EXCEPT
                      !.pc = "loop",
                      !.excel_files = Tail(run.excel_files),
                      !.handles = run.handles \ Closed(listing.script, excel_file, nature),
                      !.all_data = extend(run.all_data, excel_file, nature),
                      !.processed_files = Counted(listing.script, nature, run.processed_files)]
    /\ UNCHANGED <<listing, notBatch>>

\* what the processing function returns to main()
success(script, all_data) == Len(all_data) > 0

\* whether the line "Successfully processed x/y files" is printed:
\* process_all_8k_files returns before it when no file gave data,
\* extract_market_data has no such line
Summary(script, all_data, processed_files, total_files) ==
    IF script \in Extractors \/ (script = "8k" /\ Len(all_data) > 0)
    THEN <<processed_files, total_files>>
    ELSE NoSummary

\* after the loop: the output is written, the summary printed, and main()
\* returns 0 if success else 1
Finish ==
    /\ run.pc = "loop"
    /\ run.excel_files = <<>>
    /\ run.year_dirs = <<>>
    /\ run' = [run EXCEPT
                  !.pc = "exited",
                  !.summary = Summary(listing.script, run.all_data,
                                      run.processed_files, run.total_files),
                  !.exit_status = IF success(listing.script, run.all_data) THEN 0 ELSE 1]
    /\ UNCHANGED <<listing, notBatch>>

NextBatch == Main \/ NextYearDir \/ OpenWorkbook \/ ExtractData8k \/ ReadSheets \/ Finish

SpecBatch == InitBatch /\ [][NextBatch]_vars

\* the files a script is to attempt, in the order of their names
EligibleFiles(l) ==
    SelectSeq([k \in 1..Len(l.files) |-> k],
              LAMBDA k : l.script \notin {"annual", "annual_v2"} \/ l.files[k].name_kind = "10-K")

StrictlyIncreasing(seq) == \A i \in 1..(Len(seq) - 1) : seq[i] < seq[i + 1]

\* C15: in every run of a batch script each eligible file is attempted
\* exactly once, in sorted order, whatever the earlier files did; the run
\* reaches the final summary; and the summary's count of succeeded files is
\* at most its count of attempted files.
C15_PartialFailureTolerant ==
    (run # None /\ listing.script # "market") =>
        /\ StrictlyIncreasing(run.attempted)
        /\ (run.pc = "exited" /\ listing.root_exists) =>
              /\ run.attempted = EligibleFiles(listing)
              /\ run.summary # NoSummary
        /\ run.summary # NoSummary => run.summary[1] <= run.summary[2]

\* C16: at most one workbook handle is open at any time, and between two
\* workbooks, and when the script ends, none is.
C16_HandlesClosed ==
    run # None =>
        /\ Cardinality(run.handles) <= 1
        /\ run.pc \in {"loop", "exited"} => run.handles = {}

\* C17: a script ends with a non-zero status only when its input root (or
\* input file) does not exist.
C17_ExitStatus ==
    (run # None /\ run.pc = "exited" /\ run.exit_status # 0) => ~listing.root_exists


(***************************************************************************)
(* Further properties of the consolidation: the magnitude heuristic, the   *)
(* quarterly rows and the priority of a sheet.                             *)
(***************************************************************************)

\* C18: for every year and item, a candidate of magnitude > 100 from a sheet
\* of worse priority is not the resolved value when there is a candidate of
\* magnitude <= 100 from a sheet of strictly better priority.
C18_MagnitudeWithinPriority ==
    Produced =>
        \A k \in 1..Len(master_income.rows) : \A item \in ItemNames :
            LET year == master_income.rows[k].year
                cands == CandidateCells(annual_income, year, item)
            IN  \A c, d \in cands :
                    ( /\ ~GreaterThan(CellValue(annual_income, c), 100, 0)
                      /\ GreaterThan(CellValue(annual_income, d), 100, 0)
                      /\ CellPriority(annual_income, c) < CellPriority(annual_income, d) )
                    => master_income.rows[k].cells[item] # CellValue(annual_income, d)

\* the number of the four quarter-end columns that hold a value on a row
QuarterCount(df, row) ==
    Cardinality({c \in 1..Len(df.columns) :
                    /\ df.columns[c] \in {"june_30", "september_30", "december_31", "march_31"}
                    /\ ~IsNa(row.cells[c])})

WithoutQuarterlyRows(df) ==
    [df EXCEPT !.rows = SelectSeq(df.rows, LAMBDA r : QuarterCount(df, r) < 2)]

\* the rows of a year whose label contains a variant of the item, that hold
\* fewer than 2 quarter-end values and a number above the noise floor
AnnualRowsWithValue(df, year, standard_name) ==
    {i \in 1..Len(df.rows) :
        /\ df.rows[i].year = PyInt(year)
        /\ \E variant \in VariantsOf(standard_name) :
                LabelContains(df.rows[i].line_item, variant)
        /\ QuarterCount(df, df.rows[i]) < 2
        /\ \E c \in 1..Len(df.columns) :
                /\ df.columns[c] \notin NotValueColumns
                /\ HasData(df.rows[i].cells[c])
                /\ Qualifies(AsFloat(df.rows[i].cells[c]))}

\* the cell of an item in the row of a year of a master table, missing when
\* the table has no row of the year
CellOfYear(master, year, item) ==
    IF master.kind = "DataFrame" /\ \E k \in 1..Len(master.rows) : master.rows[k].year = year
    THEN LET k == CHOOSE j \in 1..Len(master.rows) : master.rows[j].year = year
         IN  master.rows[k].cells[item]
    ELSE None

\* every item of every year of a master table is as in another
SameItems(master, other) ==
    \A k \in 1..Len(master.rows) : \A item \in ItemNames :
        master.rows[k].cells[item] = CellOfYear(other, master.rows[k].year, item)

\* C19: the rows with 2 or more of june_30, september_30, december_31,
\* march_31 filled contribute to no item (every cell of the master table is
\* the one of the table built without them), and a row with fewer than 2 of them is not discarded: an
\* item it holds a value for is not missing in its year.
C19_QuarterlyRowsDiscarded ==
    Produced =>
        /\ SameItems(master_income,
                     create_master_income_statement(WithoutQuarterlyRows(annual_income)))
        /\ \A k \in 1..Len(master_income.rows) : \A item \in ItemNames :
              AnnualRowsWithValue(annual_income, master_income.rows[k].year, item) # {}
                  => master_income.rows[k].cells[item] # None

\* the only revenue row of 2023 holds two quarter-end values: no revenue
C19_Witness ==
    /\ Produced
    /\ Len(annual_income.rows) = 1
    /\ annual_income.rows[1].line_item = Str("Revenue")
    /\ QuarterCount(annual_income, annual_income.rows[1]) = 2
    /\ Len(master_income.rows) = 1
    /\ master_income.rows[1].cells["revenue"] = None

\* a gross profit row with one quarter-end value (45 under september_30) is used
C19_WitnessOneQuarter ==
    /\ Produced
    /\ Len(annual_income.rows) = 1
    /\ annual_income.rows[1].line_item = Str("Gross profit")
    /\ QuarterCount(annual_income, annual_income.rows[1]) = 1
    /\ master_income.rows[1].cells["gross_profit"] = Float(45, 0)

\* the priority the classes of sheets are to have; a 'consideration' sheet is
\* left to the code
ClassPriority(row) ==
    LET sheet_name == Lower(PyStr(row.sheet_name))
    IN  IF Contains(sheet_name, "management") \/ Contains(sheet_name, "selected financial")
        THEN 9
        ELSE IF Contains(sheet_name, "consideration") THEN sheet_priority(row)
        ELSE IF Contains(sheet_name, "financial statement") THEN 0
        ELSE IF Contains(sheet_name, "consolidated")
                /\ (Contains(sheet_name, "operation") \/ Contains(sheet_name, "balance"))
        THEN 1
        ELSE IF Contains(sheet_name, "operations") \/ Contains(sheet_name, "income") THEN 2
        ELSE IF Contains(sheet_name, "balance") THEN 3
        ELSE IF Contains(sheet_name, "valuation") \/ Contains(sheet_name, "contingent") THEN 4
        ELSE 5

\* C20: every row of a sheet whose name contains 'management' or 'selected
\* financial' has priority 9, and the rows of the other sheets have the
\* priority of their class: financial statements 0, consolidated
\* operations/balance 1, operations/income 2, balance 3, valuation/contingent
\* 4, any other 5.
C20_SheetPriority ==
    Produced =>
        \A i \in 1..Len(annual_income.rows) :
            sheet_priority(annual_income.rows[i]) = ClassPriority(annual_income.rows[i])


(***************************************************************************)
(* The range detect_table_boundaries returns (checked under                *)
(* SpecBoundaries).                                                        *)
(***************************************************************************)

\* C29: detect_table_boundaries returns 0 <= start_row <= end_row <= len(df),
\* and start_row < end_row when the frame has a row.
C29_BoundariesInRange ==
    boundaries # NoBoundaries =>
        /\ 0 <= boundaries.start_row
        /\ boundaries.start_row <= boundaries.end_row
        /\ boundaries.end_row <= Len(raw_df.rows)
        /\ Len(raw_df.rows) >= 1 => boundaries.start_row < boundaries.end_row

\* C29 witness: the table is the last mostly filled row alone, below a row
\* that is not mostly filled
C29_Witness ==
    /\ boundaries # NoBoundaries
    /\ Len(raw_df.rows) >= 2
    /\ boundaries.start_row >= 1
    /\ boundaries.end_row = boundaries.start_row + 1
    /\ boundaries.end_row = Len(raw_df.rows)


(***************************************************************************)
(* The values of the master table (checked under SpecConsolidate).         *)
(***************************************************************************)

\* the magnitudes of the numbers held by the value cells of the rows of a year
MagnitudesOfYear(df, year) ==
    {AbsFloat(AsFloat(df.rows[i].cells[c])) :
        i \in {j \in 1..Len(df.rows) : df.rows[j].year = PyInt(year)},
        c \in 1..Len(df.columns)}

\* C28: every line-item cell of the master table that is not missing is a
\* number above 0.01, and is the magnitude of a source value of its year.
C28_PositiveMagnitudes ==
    Produced =>
        \A k \in 1..Len(master_income.rows) : \A item \in ItemNames :
            LET cell == master_income.rows[k].cells[item]
            IN  cell # None =>
                    /\ Present(cell)
                    /\ GreaterThan(cell, 1, 2)
                    /\ cell \in MagnitudesOfYear(annual_income, master_income.rows[k].year)

\* C28 witness: a net loss written as -7.5 is held as 7.5, and a per-share
\* figure of 0.005 under 'Net income ...' leaves net_income missing
C28_Witness ==
    /\ Produced
    /\ Len(annual_income.rows) = 2
    /\ \E i \in 1..2 : annual_income.rows[i].cells[1] = Float(-75, 1)
    /\ \E i \in 1..2 : annual_income.rows[i].cells[1] = Float(5, 3)
    /\ Len(master_income.rows) = 1
    /\ master_income.rows[1].cells["net_loss"] = Float(75, 1)
    /\ master_income.rows[1].cells["net_income"] = None


(***************************************************************************)
(* DataCleaner.remove_empty_rows_and_columns on the frame of a sheet, as   *)
(* the extractors call it (threshold = 0.3).                               *)
(***************************************************************************)
InitTrim ==
    /\ \E w \in GridWidths, n \in 0..MaxGridRows :
          \E fills \in [1..n -> Fillings(w)] : raw_df = read_sheet(GridOf(w, fills))
    /\ trimmed = Pending
    /\ IdleButTrim

\* df = DataCleaner.remove_empty_rows_and_columns(df, threshold=0.3)
RemoveEmptyRowsAndColumns ==
    /\ trimmed = Pending
    /\ trimmed' = remove_empty_rows_and_columns(raw_df, 3, 10)
    /\ UNCHANGED <<raw_df, notTrim>>

NextTrim == RemoveEmptyRowsAndColumns

SpecTrim == InitTrim /\ [][NextTrim]_vars

\* the index labels of the rows of which at least 30% of the cells are present
RowsAtLeast30(df) ==
    {df.index[i] : i \in {j \in 1..Len(df.rows) : 10 * NonNull(df.rows[j]) >= 3 * Len(df.rows[j])}}

\* the labels of the columns of which at least 30% of the cells of the given
\* rows are present
ColumnsAtLeast30(df, kept) ==
    {df.columns[c] : c \in {d \in 1..Len(df.columns) :
        10 * Cardinality({i \in 1..Len(df.rows) : df.index[i] \in kept /\ ~IsNa(df.rows[i][d])})
            >= 3 * Cardinality(kept)}}

\* C24: remove_empty_rows_and_columns(df, threshold=0.3) keeps exactly the
\* rows with a share of at least 0.3 of their cells present, and exactly the
\* columns with such a share among the rows that remain.
C24_KeepsAtLeastThreshold ==
    trimmed # Pending =>
        /\ {trimmed.index[i] : i \in 1..Len(trimmed.index)} = RowsAtLeast30(raw_df)
        /\ {trimmed.columns[c] : c \in 1..Len(trimmed.columns)}
               = ColumnsAtLeast30(raw_df, RowsAtLeast30(raw_df))


(***************************************************************************)
(* ExcelParser.find_financial_statement_sheets on the sheet names of a     *)
(* workbook (sheet names of a workbook are distinct).                      *)
(***************************************************************************)
MaxSheetNames == 3

SheetNames == <<
    "Balance Sheets", "Operations", "CASH FLOWS", "Comprehensive Income",
    "Equity", "Compensation", "Balance of Cash", "Cover Page" >>

InitClassify ==
    /\ \E n \in 0..MaxSheetNames :
          \E picks \in [1..n -> 1..Len(SheetNames)] :
              /\ Injective(picks)
              /\ sheet_names = [i \in 1..n |-> SheetNames[picks[i]]]
    /\ categories = Pending
    /\ IdleButClass

\* categories = parser.find_financial_statement_sheets()
FindFinancialStatementSheets ==
    /\ categories = Pending
    /\ categories' = find_financial_statement_sheets(sheet_names)
    /\ UNCHANGED <<sheet_names, notClass>>

NextClassify == FindFinancialStatementSheets

SpecClassify == InitClassify /\ [][NextClassify]_vars

\* the keyword sets, by position in the fixed order, with a keyword contained
\* in the lowercased name
MatchingSets(sheet_lower) ==
    {i \in 1..Len(sheet_keywords) :
        \E kw \in sheet_keywords[i].kws : Contains(sheet_lower, kw)}

FirstSetOr(matching) ==
    IF matching = {} THEN "other" ELSE sheet_keywords[Min(matching)].category

\* the category a sheet is to be filed under
ExpectedCategory(sheet) == FirstSetOr(MatchingSets(Lower(sheet)))

\* every list holds, in the order of the workbook, the sheets expected there
FiledAs(lists, names, expected) ==
    \A c \in DOMAIN lists :
        lists[c] = [k \in 1..Cardinality({i \in 1..Len(names) : expected[i] = c}) |->
                       names[CHOOSE i \in 1..Len(names) :
                                /\ expected[i] = c
                                /\ Cardinality({j \in 1..i : expected[j] = c}) = k]]

\* C25: find_financial_statement_sheets files every sheet under exactly one
\* category, that of the first keyword set in the fixed order with a keyword
\* in the lowercased sheet name, or 'other' when none has; inside each list
\* the sheets keep the order of the workbook.
C25_OneCategoryPerSheet ==
    categories # Pending =>
        /\ DOMAIN categories = {category_names[i] : i \in 1..Len(category_names)}
        /\ FiledAs(categories, sheet_names,
                   [i \in 1..Len(sheet_names) |-> ExpectedCategory(sheet_names[i])])

\* C25 witness: 'Comprehensive Income' goes to income_statement, whose keyword
\* set comes first, after 'Operations'; 'Cover Page' goes to other
C25_Witness ==
    /\ categories # Pending
    /\ categories["income_statement"] = <<"Operations", "Comprehensive Income">>
    /\ categories["comprehensive_income"] = <<>>
    /\ categories["other"] = <<"Cover Page">>


(***************************************************************************)
(* The header row, the column labels and the line items of an extracted    *)
(* table (checked under SpecExtract).                                      *)
(***************************************************************************)

\* the positions of the rows of a sheet that hold the fiscal years
HeaderRows(df) == {i \in 1..Len(df.rows) : df.rows[i] = SourceRow("header", 0)}

\* the rows from position i on whose label holds a letter or a digit
LabelledRowsFrom(df, i) ==
    {j \in i..Len(df.rows) :
        /\ df.rows[j][1].kind = "str"
        /\ \E p \in 1..Len(df.rows[j][1].s) : Char(df.rows[j][1].s, p) \in WordChars}

\* C21: when a sheet has a header row, wherever it is and whatever rows were
\* dropped above it, a table is returned whose period columns are named from
\* the cells of that row and whose rows are the rows after it: none comes
\* from the header row or from a row above it, and every labelled row after
\* it is there.
C21_HeaderRehomed ==
    (extracted # Pending /\ HeaderRows(source_df) # {}) =>
        LET h == Min(HeaderRows(source_df))
        IN  /\ extracted.kind = "DataFrame"
            /\ Len(extracted.rows) > 0 => extracted.columns = <<"fy_2023", "fy_2022", "fy_2021">>
            /\ RowsEmbed(extracted.rows, 1, source_df.rows, h + 1)
            /\ Len(extracted.rows) >= Cardinality(LabelledRowsFrom(source_df, h + 1))


(***************************************************************************)
(* The names the table extractors give the columns ("Clean column names"): *)
(* extract_annual_reports.py:57-77, extract_annual_reports_v2.py:128-147,  *)
(* extract_quarterly_reports.py:57-73.                                     *)
(***************************************************************************)
MaxColumns == 3

\* extract_quarterly_reports.py:68-71: no limit on the length
period_name_quarterly(col_str) ==
    Lower(CollapseWhitespace(KeepChars(col_str, PeriodNameChars)))

\* extract_quarterly_reports.py:64-71, for a column after the first
NamePeriodColumnQuarterly(i, col, col_str) ==
    IF IsNa(col) \/ col_str \in {"", "nan", "None"} THEN "period_" \o IntToDigits(i)
    ELSE period_name_quarterly(col_str)

\* extract_quarterly_reports.py:59-71: the name of the column at position i
new_column_quarterly(i, col) ==
    IF i = 0 THEN "line_item" ELSE NamePeriodColumnQuarterly(i, col, Strip(PyStr(col)))

\* for i, col in enumerate(df.columns): new_columns.append(...)
NewColumns(which, columns) ==
    [k \in 1..Len(columns) |->
        CASE which = "annual" -> new_column(k - 1, columns[k])
          [] which = "annual_v2" -> new_column_v2(k - 1, columns[k])
          [] which = "quarterly" -> new_column_quarterly(k - 1, columns[k])]

\* header cells: missing, a date, a year read as a number, a text without a
\* year, a year of the last century
HeaderCells == {NaN, Str("March 31, 2023"), Num(2022), Str("Change"), Str("FY 1999")}

InitColumns ==
    /\ \E which \in Extractors, n \in 1..MaxColumns :
          \E columns \in [1..n -> HeaderCells] :
              header_cols = [extractor |-> which, columns |-> columns]
    /\ named_columns = Pending
    /\ IdleButColumns

\* df.columns = new_columns
CleanColumnNames ==
    /\ named_columns = Pending
    /\ named_columns' = NewColumns(header_cols.extractor, header_cols.columns)
    /\ UNCHANGED <<header_cols, notColumns>>

NextColumns == CleanColumnNames

SpecColumns == InitColumns /\ [][NextColumns]_vars

\* where runs of exactly four digits start in a text
FourDigitRuns(text) ==
    {p \in 1..(Len(text) - 3) :
        /\ \A q \in p..(p + 3) : Char(text, q) \in Digits
        /\ p > 1 => Char(text, p - 1) \notin Digits
        /\ p + 4 <= Len(text) => Char(text, p + 4) \notin Digits}

\* the positional labels of the column at position i
PositionalLabels(i) == {prefix \o "_" \o IntToDigits(i) : prefix \in {"period", "year", "col"}}

\* the label a period column is to have, given the text of its header
LabelledByYear(label, col, text, i) ==
    IF ~IsNa(col) /\ FourDigitRuns(text) # {}
    THEN label = "fy_" \o SubSeq(text, Min(FourDigitRuns(text)), Min(FourDigitRuns(text)) + 3)
    ELSE label \in PositionalLabels(i)

\* C22: the first column is named line_item; a later column whose header
\* holds a 4-digit year is named fy_<year>, and one whose header holds no
\* year gets a positional name.
C22_ColumnIdentity ==
    named_columns # Pending =>
        /\ named_columns[1] = "line_item"
        /\ \A k \in 2..Len(named_columns) :
              LabelledByYear(named_columns[k], header_cols.columns[k],
                             PyStr(header_cols.columns[k]), k - 1)


(***************************************************************************)
(* The line-item names of the two annual table extractors.                 *)
(***************************************************************************)
\* the source rows an output row may come from: its cells are theirs
SourceRowsOf(out, df) == {i \in 1..Len(df.rows) : RowFrom(out, df.rows[i])}

\* C23: both annual table extractors run the line-item column through the
\* normalizer: the line_item of every row returned is normalize_name of the
\* label of the source row it comes from.
C23_LineItemsNormalized ==
    (extracted # Pending /\ extracted.kind = "DataFrame") =>
        \A k \in 1..Len(extracted.rows) :
            \E i \in SourceRowsOf(extracted.rows[k], source_df) :
                extracted.rows[k].line_item = normalize_name(source_df.rows[i][1])


(***************************************************************************)
(* The run summary and the accumulators of the batch scripts.              *)
(***************************************************************************)
\* the attempted files that gave at least one table
Contributors(l, attempted) ==
    {attempted[i] : i \in {j \in 1..Len(attempted) : l.files[attempted[j]].nature = "data"}}

\* C26: the count the final summary reports as successfully processed is
\* the number of attempted files that contributed at least one record; a
\* file that raised or gave no record is not counted.
C26_SummaryCountsContributors ==
    (run # None /\ run.summary # NoSummary) =>
        run.summary[1] = Cardinality(Contributors(listing, run.attempted))

IsPrefix(s, t) == Len(s) <= Len(t) /\ SubSeq(t, 1, Len(s)) = s

\* the file the loop is at raises or gives no table
AtFailingFile ==
    /\ run.excel_files # <<>>
    /\ listing.files[Head(run.excel_files)].nature # "data"

\* C27: the accumulators only grow at the end: no step of a run changes or
\* removes what earlier workbooks gave, and no step made for a workbook
\* whose extraction raises changes an accumulator.
C27_AccumulatorsAppendOnly ==
    [][run # None =>
          /\ IsPrefix(run.all_data, run'.all_data)
          /\ AtFailingFile => run'.all_data = run.all_data]_vars

\* C27 witness: a run over three files ended; the second could not be
\* opened, and the accumulator holds the tables of the first, then of the
\* third
C27_Witness ==
    /\ run # None
    /\ run.pc = "exited"
    /\ listing.script \in {"annual", "annual_v2"}
    /\ run.attempted = <<1, 2, 3>>
    /\ listing.files[2].nature = "unopenable"
    /\ run.all_data = <<1, 3>>


(***************************************************************************)
(* The column labels of the tables of the content-based extractor.         *)
(***************************************************************************)
\* the tables of a results dictionary
TablesOf(res) ==
    UNION {{res.tables[stmt][k] : k \in 1..Len(res.tables[stmt])} : stmt \in DOMAIN res.tables}

====
